---- MODULE Spec2Model ----
(***************************************************************************)
(* A state-machine model of the Continuum golf simulator: the target       *)
(* catalog, the odds engine (P_max by quadrature), the per-category        *)
(* Kalman skill filter, the player aggregate, the session driver, the      *)
(* venue driver with its analytics and CSV export, the tournament driver,  *)
(* the anti-cheat detectors and the command-line process.                  *)
(*                                                                         *)
(* Arithmetic.  The program computes in f64.  The model computes in fixed  *)
(* point on integers: every quantity is an integer number of the unit      *)
(* given in Unit below, and every division rounds down.  Lengths are in    *)
(* hundredths of a foot, covariances and variances in hundredths of a      *)
(* square foot, multipliers in hundredths, money won in cents, wagers in   *)
(* whole dollars, probabilities in percent.                                *)
(***************************************************************************)
EXTENDS Integers, Sequences, FiniteSets, TLC

Unit ==
    [ ft    |-> 100,      \* lengths: 1 ft = 100
      cov   |-> 100,      \* covariance, variance: 1 ft^2 = 100
      gain  |-> 10000,    \* Kalman gain in [0, 1]: 1.0 = 10000
      frac  |-> 10000,    \* payout factor, exp(-t): 1.0 = 10000
      ratio |-> 1000,     \* d / sigma and the exponent t: 1.0 = 1000
      mult  |-> 100,      \* payout multipliers, P_max: 1.0x = 100
      pct   |-> 100,      \* rtp, probabilities, shares: 1.0 = 100
      money |-> 10000,    \* tournament pools and prizes: $1 = 10000
      hour  |-> 10 ]      \* operating hours of a venue: 1 h = 10

----------------------------------------------------------------------------
(* Integer helpers *)

Abs(x) == IF x < 0 THEN -x ELSE x

Max(a, b) == IF a >= b THEN a ELSE b

Min(a, b) == IF a <= b THEN a ELSE b

RECURSIVE SumSeq(_)
SumSeq(s) == IF s = <<>> THEN 0 ELSE Head(s) + SumSeq(Tail(s))

\* a * f / scale for a fraction f in 0..scale, without forming a * f whole
MulFrac(a, f, scale) == (a \div scale) * f + ((a % scale) * f) \div scale

\* floor of the square root of n >= 0, by bisection on [lo, hi)
RECURSIVE IsqrtIn(_, _, _)
IsqrtIn(n, lo, hi) ==
    IF hi - lo <= 1 THEN lo
    ELSE LET mid == (lo + hi) \div 2
         IN  IF mid * mid <= n THEN IsqrtIn(n, mid, hi) ELSE IsqrtIn(n, lo, mid)

Isqrt(n) == IsqrtIn(n, 0, 46341)

\* f64::exp(-t) for t >= 0 in Unit.ratio, result in Unit.frac:
\* e^-n from a table for the integer part, a degree 5 Taylor sum for the rest.
ExpNegWhole == <<10000, 3679, 1353, 498, 183, 67, 25, 9, 3, 1>>

ExpNegFrac(f) ==
    LET t1 == (10000 * f) \div 1000
        t2 == (t1 * f) \div 2000
        t3 == (t2 * f) \div 3000
        t4 == (t3 * f) \div 4000
        t5 == (t4 * f) \div 5000
    IN  10000 - t1 + t2 - t3 + t4 - t5

exp_neg(t) ==
    LET n == t \div Unit.ratio
        f == t % Unit.ratio
    IN  IF n >= Len(ExpNegWhole) THEN 0
        ELSE (ExpNegWhole[n + 1] * ExpNegFrac(f)) \div Unit.frac

\* f64::powi on a fraction x in 0..Unit.frac
RECURSIVE powi(_, _)
powi(x, n) == IF n = 0 THEN Unit.frac ELSE (x * powi(x, n - 1)) \div Unit.frac

\* f64::powf(x, k) for a fraction x in 0..Unit.frac and an exponent k in
\* tenths that is a whole number or a whole number and a half (the catalog's
\* exponents are 5.0, 5.5, 6.0 and 6.5): x^k = x^floor(k) * sqrt(x).
powf(x, k) ==
    IF k % 10 = 0 THEN powi(x, k \div 10)
    ELSE (powi(x, k \div 10) * Isqrt(x * Unit.frac)) \div Unit.frac

----------------------------------------------------------------------------
(* models/hole.rs: the target catalog *)

Categories == {"Wedge", "MidIron", "LongIron"}

HOLE_CONFIGURATIONS ==
    << [id |-> 1, distance_yds |-> 75,  d_max_ft |-> 1795,  rtp |-> 85, k |-> 50, category |-> "Wedge"],
       [id |-> 2, distance_yds |-> 100, d_max_ft |-> 2569,  rtp |-> 85, k |-> 50, category |-> "Wedge"],
       [id |-> 3, distance_yds |-> 125, d_max_ft |-> 3671,  rtp |-> 85, k |-> 55, category |-> "Wedge"],
       [id |-> 4, distance_yds |-> 150, d_max_ft |-> 4758,  rtp |-> 85, k |-> 60, category |-> "MidIron"],
       [id |-> 5, distance_yds |-> 175, d_max_ft |-> 5909,  rtp |-> 85, k |-> 60, category |-> "MidIron"],
       [id |-> 6, distance_yds |-> 200, d_max_ft |-> 7358,  rtp |-> 85, k |-> 65, category |-> "LongIron"],
       [id |-> 7, distance_yds |-> 225, d_max_ft |-> 8484,  rtp |-> 85, k |-> 65, category |-> "LongIron"],
       [id |-> 8, distance_yds |-> 250, d_max_ft |-> 10114, rtp |-> 85, k |-> 65, category |-> "LongIron"] >>

\* Option<&Hole>: None is <<>>, Some(hole) is <<hole>>
get_hole_by_id(id) ==
    IF id < 1 \/ id > 8 THEN <<>> ELSE <<HOLE_CONFIGURATIONS[id]>>

\* calculate_payout without the cut at d_max
calculate_payout_uncut(hole, miss_distance, p_max) ==
    LET normalized == Unit.frac - (miss_distance * Unit.frac) \div hole.d_max_ft
    IN  MulFrac(p_max, powf(normalized, hole.k), Unit.frac)

\* Hole::calculate_payout: the multiplier, in Unit.mult
calculate_payout(hole, miss_distance, p_max) ==
    IF miss_distance > hole.d_max_ft THEN 0
    ELSE LET normalized == Unit.frac - (miss_distance * Unit.frac) \div hole.d_max_ft
         IN  MulFrac(p_max, powf(normalized, hole.k), Unit.frac)

----------------------------------------------------------------------------
(* math/integration.rs *)

\* trapezoidal_rule(f, a, b, n): f is the integrand as a function of the
\* abscissa (Unit.ft), in 1e-5 per foot; the step h is kept in 1e-4 ft; the
\* result is in 1e-9.
trapezoidal_rule(f, a, b, n) ==
    IF n = 0 THEN 0
    ELSE LET h   == ((b - a) * 100) \div n
             x(i) == a + (i * h) \div 100
             sum == (f[a] + f[b]) \div 2 + SumSeq([i \in 1..(n - 1) |-> f[x(i)]])
         IN  h * sum

----------------------------------------------------------------------------
(* math/kalman.rs *)

InitialErrorCovariance == 100000

KalmanNew(initial_sigma, process_noise) ==
    [ estimate         |-> initial_sigma,
      error_covariance |-> InitialErrorCovariance,
      process_noise    |-> process_noise,
      initial_estimate |-> initial_sigma ]

\* predict adding the process noise twice
predict_twice(kf) ==
    [kf EXCEPT !.error_covariance = kf.error_covariance + 2 * kf.process_noise]

\* KalmanState::predict: P <- P + Q
predict(kf) ==
    [kf EXCEPT !.error_covariance = kf.error_covariance + kf.process_noise]

\* update with the sign of the gain flipped in the covariance
update_inflating(kf, measurement, measurement_noise) ==
    LET kalman_gain == (kf.error_covariance * Unit.gain)
                           \div (kf.error_covariance + measurement_noise)
        innovation  == measurement - kf.estimate
    IN  [kf EXCEPT
            !.estimate = kf.estimate + (kalman_gain * innovation) \div Unit.gain,
            !.error_covariance =
                (kf.error_covariance * (Unit.gain + kalman_gain)) \div Unit.gain]

\* KalmanState::update: K = P / (P + R); est += K * (z - est); P *= 1 - K
update(kf, measurement, measurement_noise) ==
    LET kalman_gain == (kf.error_covariance * Unit.gain)
                           \div (kf.error_covariance + measurement_noise)
        innovation  == measurement - kf.estimate
    IN  [kf EXCEPT
            !.estimate = kf.estimate + (kalman_gain * innovation) \div Unit.gain,
            !.error_covariance =
                (kf.error_covariance * (Unit.gain - kalman_gain)) \div Unit.gain]

\* The argument of the logarithm in KalmanState::calculate_confidence after
\* its two early returns: confidence = 100 * (1 - ln(c / 50) / ln(20)) for
\* c = ConfidenceCovariance(P), so confidence falls strictly as c grows and
\* two filters compare in confidence as their c compare in reverse.
MinConfidenceCovariance == 5000

MaxConfidenceCovariance == 100000

ConfidenceCovariance(p) ==
    IF p <= MinConfidenceCovariance THEN MinConfidenceCovariance
    ELSE IF p >= MaxConfidenceCovariance THEN MaxConfidenceCovariance
    ELSE p

\* sqrt(pi / 2) in Unit.frac
SqrtHalfPi == 12533

debias_rayleigh_measurement(measured_miss) ==
    (measured_miss * Unit.frac) \div SqrtHalfPi

\* measurements: a sequence of <<miss, wager>> pairs
weighted_average_measurement(measurements) ==
    LET total_weight == SumSeq([i \in 1..Len(measurements) |-> measurements[i][2]])
        weighted_sum == SumSeq([i \in 1..Len(measurements) |->
                                   measurements[i][1] * measurements[i][2]])
    IN  IF total_weight = 0 THEN 0 ELSE weighted_sum \div total_weight

DefaultVariance == 10000

\* Sample variance (Bessel), in Unit.cov; deviations are squared in tenths
\* of a foot, which gives hundredths of a square foot.
measurement_variance(measurements) ==
    IF Len(measurements) <= 1 THEN DefaultVariance
    ELSE LET n    == Len(measurements)
             mean == SumSeq(measurements) \div n
             dev(i) == Abs(measurements[i] - mean) \div 10
         IN  SumSeq([i \in 1..n |-> dev(i) * dev(i)]) \div (n - 1)

----------------------------------------------------------------------------
(* models/player.rs *)

BatchSize == 5

ProcessNoise == 100

MinMeasurementNoise == 5000

N_SUBDIVISIONS == 40

\* calculate_initial_dispersion, in Unit.ft:
\* distance * 3 * (0.05 + (distance - 75) / 175 * 0.01) * (0.5 + handicap / 30)
calculate_initial_dispersion(handicap, distance_yds) ==
    LET distance_factor == 50000 + ((distance_yds - 75) * 10000) \div 175  \* 1e-6
        skill_factor30  == 15 + handicap                                   \* 1/30
    IN  (distance_yds * 3 * distance_factor * skill_factor30) \div (30 * 10000)

RepresentativeDistance ==
    [c \in Categories |->
        IF c = "Wedge" THEN 100 ELSE IF c = "MidIron" THEN 162 ELSE 225]

\* Player::new; update_log is the history of the covariance: one entry per
\* update_skill call that flushed a batch
NewPlayer(id, handicap) ==
    [ id       |-> id,
      handicap |-> handicap,
      skill_profiles |->
        [c \in Categories |->
            [ kalman_filter |->
                  KalmanNew(calculate_initial_dispersion(handicap, RepresentativeDistance[c]),
                            ProcessNoise),
              p_max_history |-> <<>>,
              shot_batch    |-> <<>>,
              batch_size    |-> BatchSize,
              update_log    |-> <<>> ]] ]

get_skill_for_hole(player, hole) == player.skill_profiles[hole.category]

\* The closure `integrand` of calculate_p_max at abscissa d (Unit.ft), in
\* 1e-5 per foot: (1 - d/d_max)^k * (d / sigma^2) * exp(-d^2 / (2 sigma^2)).
\* q = d / sigma; beyond q = 5 the exponential is below the resolution of
\* exp_neg and is 0.
integrand(hole, sigma, d) ==
    IF d > hole.d_max_ft THEN 0
    ELSE LET payout_factor == powf(Unit.frac - (d * Unit.frac) \div hole.d_max_ft, hole.k)
             q == (d * Unit.ratio) \div sigma
             e == IF q > 5 * Unit.ratio THEN 0
                  ELSE exp_neg((q * q) \div (2 * Unit.ratio))
             rayleigh_pdf == (q * e) \div sigma
         IN  (payout_factor * rayleigh_pdf) \div Unit.frac

\* upper_bound of calculate_p_max
integration_bound(hole, sigma) == Max((hole.d_max_ft * 3) \div 2, sigma * 5)

\* trapezoidal_rule(integrand, 0.0, upper_bound, n_subdivisions), in 1e-9,
\* for the Rayleigh density of parameter sigma
expected_payout(hole, sigma, upper_bound) ==
    LET f == [d \in 0..upper_bound |-> integrand(hole, sigma, d)]
    IN  trapezoidal_rule(f, 0, upper_bound, N_SUBDIVISIONS)

\* rtp / (expected_payout + epsilon), in Unit.mult, for the estimate sigma.
\* expected_payout is brought to 1e-7 for the division; the code's epsilon
\* (1e-10) is below that resolution: the denominator is kept at least one
\* unit, i.e. epsilon is modelled as 1e-7.
p_max_for_sigma(hole, sigma) ==
    (hole.rtp * 10000000)
        \div Max(expected_payout(hole, sigma, integration_bound(hole, sigma)) \div 100, 1)

\* calculate_p_max reading the estimate the filter was created with
calculate_p_max_stale(player, hole) ==
    p_max_for_sigma(hole, get_skill_for_hole(player, hole).kalman_filter.initial_estimate)

\* Player::calculate_p_max
calculate_p_max(player, hole) ==
    p_max_for_sigma(hole, get_skill_for_hole(player, hole).kalman_filter.estimate)

\* The push onto the batch of every category
add_shot_to_batch_every(player, hole, miss_distance, wager) ==
    [player EXCEPT !.skill_profiles =
        [c \in Categories |->
            [@[c] EXCEPT !.shot_batch =
                Append(@, [miss_distance |-> miss_distance, wager |-> wager])]]]

\* Player::add_shot_to_batch: the player after the push
add_shot_to_batch(player, hole, miss_distance, wager) ==
    [player EXCEPT !.skill_profiles[hole.category].shot_batch =
        Append(@, [miss_distance |-> miss_distance, wager |-> wager])]

\* The return value with > for >=
batch_full_late(player, hole) ==
    LET skill == get_skill_for_hole(player, hole)
    IN  Len(skill.shot_batch) > skill.batch_size

\* Player::add_shot_to_batch: its return value, read on the player after the push
batch_full(player, hole) ==
    LET skill == get_skill_for_hole(player, hole)
    IN  Len(skill.shot_batch) >= skill.batch_size

\* The comparison without the return on an empty batch, whose mean is 0
is_high_stakes_shot_unguarded(player, hole, wager) ==
    LET skill == get_skill_for_hole(player, hole)
        n     == Len(skill.shot_batch)
        total_wagers == SumSeq([i \in 1..n |-> skill.shot_batch[i].wager])
    IN  wager * n >= 10 * total_wagers

\* Player::is_high_stakes_shot: wager >= 10.0 * avg_wager
is_high_stakes_shot(player, hole, wager) ==
    LET skill == get_skill_for_hole(player, hole)
        n     == Len(skill.shot_batch)
        total_wagers == SumSeq([i \in 1..n |-> skill.shot_batch[i].wager])
    IN  IF n = 0 THEN FALSE
        ELSE wager * n >= 10 * total_wagers

\* Player::update_skill
update_skill(player, hole, p_max) ==
    LET skill == get_skill_for_hole(player, hole)
        n     == Len(skill.shot_batch)
        measurements   == [i \in 1..n |-> <<skill.shot_batch[i].miss_distance,
                                             skill.shot_batch[i].wager>>]
        weighted_avg   == weighted_average_measurement(measurements)
        unbiased_measurement == debias_rayleigh_measurement(weighted_avg)
        miss_distances == [i \in 1..n |-> skill.shot_batch[i].miss_distance]
        batch_variance == measurement_variance(miss_distances)
        measurement_noise == Max(batch_variance, MinMeasurementNoise)
        updated == update(predict(skill.kalman_filter),
                          unbiased_measurement, measurement_noise)
    IN  IF n = 0 THEN player
        ELSE [player EXCEPT !.skill_profiles[hole.category] =
                [ skill EXCEPT
                    !.kalman_filter = updated,
                    !.p_max_history = Append(skill.p_max_history, p_max),
                    !.shot_batch    = <<>>,
                    !.update_log    =
                        Append(skill.update_log,
                               [ prior_covariance  |-> skill.kalman_filter.error_covariance,
                                 measurement_noise |-> measurement_noise,
                                 covariance        |-> updated.error_covariance ]) ]]

----------------------------------------------------------------------------
(* simulators/player_session.rs: configurations *)

MaxShots == 3

MaxFatTails == 1

\* Option<DeveloperMode> and its Option<f64> are flattened into one record.
NoDeveloperMode ==
    [is_some |-> FALSE, manual_is_some |-> FALSE, manual_miss_distance |-> 0,
     disable_kalman |-> FALSE]

DeveloperMode(manual_is_some, manual_miss_distance, disable_kalman) ==
    [is_some |-> TRUE, manual_is_some |-> manual_is_some,
     manual_miss_distance |-> manual_miss_distance,
     disable_kalman |-> disable_kalman]

\* enum HoleSelection
Random == [kind |-> "Random", id |-> 0, weights |-> <<>>]

Fixed(id) == [kind |-> "Fixed", id |-> id, weights |-> <<>>]

\* weights: a sequence of <<hole_id, probability in percent>>
Weighted(weights) == [kind |-> "Weighted", id |-> 0, weights |-> weights]

\* struct SessionConfig; fat_tail_prob in percent, fat_tail_mult in hundredths
SessionConfig(num_shots, wager_min, wager_max, hole_selection, developer_mode, fat_tail_prob) ==
    [ num_shots      |-> num_shots,
      wager_min      |-> wager_min,
      wager_max      |-> wager_max,
      hole_selection |-> hole_selection,
      developer_mode |-> developer_mode,
      fat_tail_prob  |-> fat_tail_prob,
      fat_tail_mult  |-> 300 ]

\* The developer switch ignored
kalman_enabled_always(config) == TRUE

\* config.developer_mode.as_ref().map_or(true, |dm| !dm.disable_kalman)
kalman_enabled(config) ==
    IF config.developer_mode.is_some
    THEN ~config.developer_mode.disable_kalman
    ELSE TRUE

----------------------------------------------------------------------------
(* The random draws.  rand::thread_rng() is seeded by the operating system *)
(* in every function that draws: every draw is a free choice.              *)

\* rng.gen_range(0..HOLE_CONFIGURATIONS.len()): one target of each category
\* and the two ends of the catalog
HoleIndexDraws == {0, 3, 5, 7}

\* rng.gen::<f64>() of select_hole, in percent
RollDraws == {10, 60, 95}

\* rng.gen::<f64>() of fat_tail_shot, in percent
FatRollDraws == {1, 50}

\* sqrt(-2 ln u) of rayleigh_random for the draw u, in hundredths:
\* 1.00 (u = 0.61) and 1.25 (u = 0.46)
RayleighFactors == {100, 125}

\* rng.gen_range(wager_min..=wager_max): whole dollar amounts of the range
WagerValues == {1, 10, 100}

WagerDraws(config) ==
    {w \in WagerValues : config.wager_min <= w /\ w <= config.wager_max}

\* rayleigh_random(sigma) for the draw with factor r
rayleigh_random(sigma, r) == (sigma * r) \div 100

\* fat_tail_shot(sigma, fat_tail_prob, fat_tail_mult) for the draws roll and r:
\* <<miss_distance, is_fat_tail>>
fat_tail_shot(sigma, fat_tail_prob, fat_tail_mult, roll, r) ==
    IF roll < fat_tail_prob
    THEN <<rayleigh_random((sigma * fat_tail_mult) \div 100, r), TRUE>>
    ELSE <<rayleigh_random(sigma, r), FALSE>>

\* models/shot.rs simulate_shot
simulate_shot(sigma, fat_tail_prob, fat_tail_mult, roll, r) ==
    fat_tail_shot(sigma, fat_tail_prob, fat_tail_mult, roll, r)

\* The walk of select_hole over the weights from entry i with the running
\* sum: the id of the first entry whose cumulative probability exceeds the
\* roll, or the last entry's id (1 when there is none).
RECURSIVE weighted_pick(_, _, _, _)
weighted_pick(weights, i, cumulative, roll) ==
    IF i > Len(weights)
    THEN (IF Len(weights) = 0 THEN 1 ELSE weights[Len(weights)][1])
    ELSE IF roll < cumulative + weights[i][2]
         THEN weights[i][1]
         ELSE weighted_pick(weights, i + 1, cumulative + weights[i][2], roll)

\* select_hole for the draws idx (Random) and roll (Weighted): <<hole>>, or
\* <<>> when .expect() panics on an id that is not in the catalog.
select_hole(selection, idx, roll) ==
    IF selection.kind = "Random" THEN <<HOLE_CONFIGURATIONS[idx + 1]>>
    ELSE IF selection.kind = "Weighted"
         THEN get_hole_by_id(weighted_pick(selection.weights, 1, 0, roll))
         ELSE get_hole_by_id(selection.id)

----------------------------------------------------------------------------
(* simulators/player_session.rs: run_session *)

\* skill.kalman_filter.estimate of every category
estimates(pl) == [c \in Categories |-> pl.skill_profiles[c].kalman_filter.estimate]

\* The locals of run_session at the top of the function, with the skill
\* profiles the call was entered with.
session_start(pl, config) ==
    [ pc |-> "loop", config |-> config, shot_num |-> 0,
      shots |-> <<>>, total_wagered |-> 0, total_won |-> 0,
      num_kalman_updates |-> 0, num_high_stakes_shots |-> 0,
      locals |-> <<>>, start_profiles |-> pl.skill_profiles ]

\* No call of run_session is in progress.
idle_session(pl) ==
    [ session_start(pl, SessionConfig(0, 0, 0, Random, NoDeveloperMode, 0))
        EXCEPT !.pc = "idle" ]

\* payout_multiplier = hole.calculate_payout(miss_distance, p_max)
payout_multiplier(hole, miss_distance, p_max) ==
    calculate_payout(hole, miss_distance, p_max)

\* The block without the flush of the batch the shot found
pre_flushed_skipped(pl, hole, wager, p_max) == pl

\* The player after step 6 of one iteration (the block under
\* "if kalman_enabled"): pre-flush with the p_max of the iteration when the
\* shot is high-stakes, insertion, flush when the batch is full or the shot
\* is high-stakes.
pre_flushed(pl, hole, wager, p_max) ==
    IF is_high_stakes_shot(pl, hole, wager)
       /\ Len(get_skill_for_hole(pl, hole).shot_batch) > 0
    THEN update_skill(pl, hole, p_max)
    ELSE pl

skill_step(pl, hole, wager, miss_distance, p_max) ==
    LET is_high_stakes == is_high_stakes_shot(pl, hole, wager)
        p1 == pre_flushed(pl, hole, wager, p_max)
        p2 == add_shot_to_batch(p1, hole, miss_distance, wager)
    IN  IF batch_full(p2, hole) \/ is_high_stakes
        THEN update_skill(p2, hole, p_max)
        ELSE p2

\* The count without the flush of the batch the shot found
skill_step_updates_late(pl, hole, wager, miss_distance, p_max) ==
    LET p2 == add_shot_to_batch(pre_flushed(pl, hole, wager, p_max), hole,
                                miss_distance, wager)
    IN  IF batch_full(p2, hole) \/ is_high_stakes_shot(pl, hole, wager) THEN 1 ELSE 0

\* The number of update_skill calls of that block
skill_step_updates(pl, hole, wager, miss_distance, p_max) ==
    LET is_high_stakes == is_high_stakes_shot(pl, hole, wager)
        pre == IF is_high_stakes
                  /\ Len(get_skill_for_hole(pl, hole).shot_batch) > 0
               THEN 1 ELSE 0
        p2  == add_shot_to_batch(pre_flushed(pl, hole, wager, p_max), hole,
                                 miss_distance, wager)
    IN  pre + (IF batch_full(p2, hole) \/ is_high_stakes THEN 1 ELSE 0)

\* The calls that block makes on the player, in order, each with the batch
\* of the target's category before and after the call
skill_step_trace(pl, hole, wager, miss_distance, p_max) ==
    LET is_high_stakes == is_high_stakes_shot(pl, hole, wager)
        batch(p) == get_skill_for_hole(p, hole).shot_batch
        p1 == pre_flushed(pl, hole, wager, p_max)
        p2 == add_shot_to_batch(p1, hole, miss_distance, wager)
        p3 == update_skill(p2, hole, p_max)
    IN  (IF is_high_stakes /\ Len(batch(pl)) > 0
         THEN << [op |-> "update_skill", before |-> batch(pl), after |-> batch(p1)] >>
         ELSE << >>)
        \o << [op |-> "add_shot_to_batch", before |-> batch(p1), after |-> batch(p2)] >>
        \o (IF batch_full(p2, hole) \/ is_high_stakes
            THEN << [op |-> "update_skill", before |-> batch(p2), after |-> batch(p3)] >>
            ELSE << >>)

\* One iteration of the loop of run_session for the selected hole, the drawn
\* wager, p_max = player.calculate_p_max(hole) and the miss distance:
\* <<player, locals of run_session>>.
loop_iteration(pl, st, hole, wager, p_max, miss_distance, is_fat_tail) ==
    LET config        == st.config
        current_sigma == get_skill_for_hole(pl, hole).kalman_filter.estimate
        multiplier    == payout_multiplier(hole, miss_distance, p_max)
        payout_amount == multiplier * wager
        outcome == [ miss_distance_ft |-> miss_distance, multiplier |-> multiplier,
                     payout |-> payout_amount, wager |-> wager,
                     hole_id |-> hole.id, is_fat_tail |-> is_fat_tail ]
        enabled == kalman_enabled(config)
        is_high_stakes == enabled /\ is_high_stakes_shot(pl, hole, wager)
        pl2 == IF enabled THEN skill_step(pl, hole, wager, miss_distance, p_max)
               ELSE pl
        updates == IF enabled
                   THEN skill_step_updates(pl, hole, wager, miss_distance, p_max)
                   ELSE 0
        local == [ shot_num |-> st.shot_num, hole_id |-> hole.id,
                   current_sigma |-> current_sigma, p_max |-> p_max,
                   is_high_stakes |-> is_high_stakes,
                   sigma_pre_flushed |->
                       IF enabled
                       THEN get_skill_for_hole(pre_flushed(pl, hole, wager, p_max),
                                               hole).kalman_filter.estimate
                       ELSE current_sigma,
                   updates |-> updates,
                   trace |-> IF enabled
                             THEN skill_step_trace(pl, hole, wager, miss_distance, p_max)
                             ELSE << >>,
                   estimates_after |-> estimates(pl2) ]
    IN  << pl2,
           [st EXCEPT !.shot_num = @ + 1,
                      !.shots = Append(@, outcome),
                      !.total_wagered = @ + wager,
                      !.total_won = @ + payout_amount,
                      !.num_high_stakes_shots = @ + (IF is_high_stakes THEN 1 ELSE 0),
                      !.num_kalman_updates = @ + updates,
                      !.locals = Append(@, local)] >>

\* run_session without the final update
flush_remaining_skipped(pl, i, count) == <<pl, count>>

\* The final update for the category of the first target only
flush_remaining_first(pl, i, count) ==
    LET hole == HOLE_CONFIGURATIONS[1]
    IN  IF Len(get_skill_for_hole(pl, hole).shot_batch) > 0
        THEN <<update_skill(pl, hole, calculate_p_max(pl, hole)), count + 1>>
        ELSE <<pl, count>>

\* "Final update for any remaining batched shots": the loop over
\* HOLE_CONFIGURATIONS from index i; <<player, number of updates>>.
RECURSIVE flush_remaining(_, _, _)
flush_remaining(pl, i, count) ==
    IF i > Len(HOLE_CONFIGURATIONS) THEN <<pl, count>>
    ELSE LET hole == HOLE_CONFIGURATIONS[i]
         IN  IF Len(get_skill_for_hole(pl, hole).shot_batch) > 0
             THEN flush_remaining(update_skill(pl, hole, calculate_p_max(pl, hole)),
                                  i + 1, count + 1)
             ELSE flush_remaining(pl, i + 1, count)

\* struct SessionResult built at the end of run_session (money in cents,
\* session_house_edge in 1/10000), with the configuration and the locals
\* of the call.
SessionResult(pl, st, updates) ==
    [ total_wagered |-> st.total_wagered,
      total_won     |-> st.total_won,
      net_gain_loss |-> st.total_won - st.total_wagered * 100,
      shots         |-> st.shots,
      final_skill_profiles |-> estimates(pl),
      session_house_edge |->
          IF st.total_wagered > 0
          THEN Unit.frac - (st.total_won * 100) \div st.total_wagered
          ELSE 0,
      num_kalman_updates    |-> st.num_kalman_updates + updates,
      num_high_stakes_shots |-> st.num_high_stakes_shots,
      config         |-> st.config,
      locals         |-> st.locals,
      start_profiles |-> st.start_profiles,
      final_profiles |-> pl.skill_profiles ]

----------------------------------------------------------------------------------------------------------------------------------------
(* The callers: each plan is the sequence of calls one caller makes for *)
(* one player, as the test programs do.                                 *)

Handicaps == {15, 30}

LongSession == BatchSize + 1

\* run_session(&mut player, config)
RunSession(config) ==
    [call |-> "run_session", config |-> config,
     hole_id |-> 0, miss_distance |-> 0, wager |-> 0]

\* player.add_shot_to_batch(get_hole_by_id(hole_id).unwrap(), miss_distance, wager)
AddShot(hole_id, miss_distance, wager) ==
    [call |-> "add_shot_to_batch",
     config |-> SessionConfig(0, 0, 0, Random, NoDeveloperMode, 0),
     hole_id |-> hole_id, miss_distance |-> miss_distance, wager |-> wager]

\* let p_max = player.calculate_p_max(hole); player.update_skill(hole, p_max)
UpdateSkill(hole_id) ==
    [call |-> "update_skill",
     config |-> SessionConfig(0, 0, 0, Random, NoDeveloperMode, 0),
     hole_id |-> hole_id, miss_distance |-> 0, wager |-> 0]

\* test_high_stakes_detection: three pending wedge shots at $5
PendingShots == << AddShot(1, 1000, 5), AddShot(1, 1200, 5), AddShot(1, 1100, 5) >>

\* a player with pending shots enters a session of one shot, or of two
PendingPlan(num_shots) ==
    PendingShots
    \o << RunSession(SessionConfig(num_shots, 10, 100,
                                   Weighted(<< <<1, 50>>, <<6, 50>> >>),
                                   NoDeveloperMode, 0)) >>

\* test_separate_skill_profiles: five wedge shots, then update_skill
SeparateProfilesPlan ==
    [i \in 1..BatchSize |-> AddShot(1, 1500, 5)] \o << UpdateSkill(1) >>

\* test_add_shot_to_batch leaves a full batch; a session entered with it
FullBatchPlan ==
    [i \in 1..BatchSize |-> AddShot(1, 1000 + 100 * i, 5)]
    \o << RunSession(SessionConfig(1, 10, 10, Fixed(1), NoDeveloperMode, 0)) >>

\* validate_high_stakes_logic: a session at w, then one at 10 w
HighStakesPlan ==
    << RunSession(SessionConfig(MaxShots, 1, 1, Fixed(4), NoDeveloperMode, 0)),
       RunSession(SessionConfig(MaxShots, 10, 10, Fixed(4), NoDeveloperMode, 0)) >>

\* one shot, then three shots with mixed wagers and fat tails
MixedPlan ==
    << RunSession(SessionConfig(1, 1, 1, Fixed(6), NoDeveloperMode, 0)),
       RunSession(SessionConfig(3, 1, 10, Fixed(6), NoDeveloperMode, 2)) >>

\* developer mode with the filter switched off, for a player with a pending shot
DisabledPlan ==
    << AddShot(4, 2000, 1),
       RunSession(SessionConfig(MaxShots, 1, 10, Fixed(4),
                                DeveloperMode(FALSE, 0, TRUE), 0)) >>

Plans ==
    { HighStakesPlan,
      DisabledPlan,
      PendingPlan(1),
      PendingPlan(2),
      SeparateProfilesPlan,
      FullBatchPlan,
      \* developer mode: a fixed miss of 5 ft, the filter on
      << RunSession(SessionConfig(MaxShots, 1, 100, Fixed(4),
                                  DeveloperMode(TRUE, 500, FALSE), 0)) >>,
      \* a session long enough to fill a batch
      << RunSession(SessionConfig(LongSession, 10, 10, Fixed(4), NoDeveloperMode, 0)) >>,
      << RunSession(SessionConfig(MaxShots, 10, 10,
                                  Weighted(<< <<1, 50>>, <<6, 40>> >>),
                                  NoDeveloperMode, 0)) >>,
      << RunSession(SessionConfig(1, 10, 10, Random, NoDeveloperMode, 0)) >>,
      \* an empty session
      << RunSession(SessionConfig(0, 10, 1, Fixed(4), NoDeveloperMode, 0)) >>,
      \* malformed configurations
      << RunSession(SessionConfig(MaxShots, 10, 10, Fixed(9), NoDeveloperMode, 0)) >>,
      << RunSession(SessionConfig(MaxShots, 10, 10,
                                  Weighted(<< <<4, 50>>, <<9, 50>> >>),
                                  NoDeveloperMode, 0)) >>,
      << RunSession(SessionConfig(MaxShots, 10, 1, Fixed(4), NoDeveloperMode, 0)) >> }

\* <<handicap, plan>>: every plan for every handicap, the mixed plan for the
\* weaker player
Callers == (Handicaps \X Plans) \cup {<<30, MixedPlan>>}

----------------
(* State *)

VARIABLES
    player,     \* task -> Player
    run,        \* task -> the call of run_session in progress
    results,    \* task -> the SessionResults returned so far
    plan,       \* task -> the calls still to make
    fat_tails,  \* task -> number of fat-tail draws so far
    venue,      \* the call of run_venue_simulation
    filter,     \* a KalmanState driven on its own, with its last call
    hole_call,  \* the last call into models/hole.rs, with what it returned
    tournament, \* the call of run_tournament
    detector,   \* the last call into anti_cheat.rs, with what it returned
    cli,        \* the process of main.rs
    export      \* the last call into analytics/export.rs, with the file written

\* The state outside the sessions, the venue and the filter
library == <<hole_call, tournament, detector, cli, export>>

vars == <<player, run, results, plan, fat_tails, venue, filter, library>>

Tasks == DOMAIN run

NoVenue == [pc |-> "none"]

NoFilter == [last |-> "none"]

NoCall == [pc |-> "none"]

\* Nothing outside the sessions, the venue and the filter has been called
LibraryIdle ==
    /\ hole_call = NoCall
    /\ tournament = NoCall
    /\ detector = NoCall
    /\ cli = NoCall
    /\ export = NoCall

Init ==
    \E caller \in Callers :
        /\ player = [t \in {1} |-> NewPlayer(1, caller[1])]
        /\ run = [t \in {1} |-> idle_session(player[t])]
        /\ results = [t \in {1} |-> <<>>]
        /\ plan = [t \in {1} |-> caller[2]]
        /\ fat_tails = [t \in {1} |-> 0]
        /\ venue = NoVenue
        /\ filter = NoFilter
        /\ LibraryIdle

\* The caller adds a shot to the pending batch of the player.
CallAddShotToBatch(t) ==
    /\ run[t].pc = "idle"
    /\ plan[t] # <<>>
    /\ Head(plan[t]).call = "add_shot_to_batch"
    /\ LET c == Head(plan[t])
       IN  player' = [player EXCEPT ![t] =
                        add_shot_to_batch(@, get_hole_by_id(c.hole_id)[1],
                                          c.miss_distance, c.wager)]
    /\ run' = [run EXCEPT ![t] = idle_session(player'[t])]
    /\ plan' = [plan EXCEPT ![t] = Tail(@)]
    /\ UNCHANGED <<results, fat_tails, venue, filter, library>>

\* The caller flushes the pending batch of a category of the player.
CallUpdateSkill(t) ==
    /\ run[t].pc = "idle"
    /\ plan[t] # <<>>
    /\ Head(plan[t]).call = "update_skill"
    /\ LET hole == get_hole_by_id(Head(plan[t]).hole_id)[1]
       IN  player' = [player EXCEPT ![t] =
                        update_skill(@, hole, calculate_p_max(@, hole))]
    /\ run' = [run EXCEPT ![t] = idle_session(player'[t])]
    /\ plan' = [plan EXCEPT ![t] = Tail(@)]
    /\ UNCHANGED <<results, fat_tails, venue, filter, library>>

\* let result = run_session(&mut player, config): entry
CallRunSession(t) ==
    /\ run[t].pc = "idle"
    /\ plan[t] # <<>>
    /\ Head(plan[t]).call = "run_session"
    /\ run' = [run EXCEPT ![t] = session_start(player[t], Head(plan[t]).config)]
    /\ plan' = [plan EXCEPT ![t] = Tail(@)]
    /\ UNCHANGED <<player, results, fat_tails, venue, filter, library>>

\* Inside run_venue_simulation the bays draw from smaller sets: a wedge and a
\* long-iron target, and one Rayleigh factor for the normal and the fat-tail
\* component, a tenth of sigma, which lands inside the scoring radius
VenueHoleIndexDraws == {0, 7}

VenueRayleighFactors == {10}

in_venue == venue.pc # "none"

\* The draws select_hole makes for the selection
HoleDraws(selection) ==
    IF selection.kind = "Random"
    THEN (IF in_venue THEN VenueHoleIndexDraws ELSE HoleIndexDraws) \X {0}
    ELSE IF selection.kind = "Weighted" THEN {0} \X RollDraws
    ELSE {<<0, 0>>}

\* The <<miss_distance, is_fat_tail>> the iteration can produce
MissDraws(config, current_sigma) ==
    IF config.developer_mode.is_some /\ config.developer_mode.manual_is_some
    THEN {<<config.developer_mode.manual_miss_distance, FALSE>>}
    ELSE {simulate_shot(current_sigma, config.fat_tail_prob, config.fat_tail_mult,
                        roll, r) :
             roll \in FatRollDraws,
             r \in IF in_venue THEN VenueRayleighFactors ELSE RayleighFactors}

\* One iteration of "for shot_num in 0..config.num_shots".  select_hole
\* panics on an id outside the catalog and gen_range panics on an empty
\* range; the panic unwinds out of run_session and leaves the player as the
\* earlier iterations left it.
LoopIteration(t) ==
    /\ run[t].pc = "loop"
    /\ run[t].shot_num < run[t].config.num_shots
    /\ \E hd \in HoleDraws(run[t].config.hole_selection) :
        LET config   == run[t].config
            selected == select_hole(config.hole_selection, hd[1], hd[2])
        IN  IF selected = <<>> \/ config.wager_min > config.wager_max
            THEN /\ run' = [run EXCEPT ![t].pc = "panicked"]
                 /\ UNCHANGED <<player, results, plan, fat_tails, venue, filter, library>>
            ELSE LET hole == selected[1]
                     current_sigma ==
                         get_skill_for_hole(player[t], hole).kalman_filter.estimate
                     p_max == calculate_p_max(player[t], hole)
                 IN  \E wager \in WagerDraws(config),
                        miss \in MissDraws(config, current_sigma) :
                         LET next == loop_iteration(player[t], run[t], hole, wager,
                                                    p_max, miss[1], miss[2])
                         IN  /\ miss[2] => fat_tails[t] < MaxFatTails
                             /\ player' = [player EXCEPT ![t] = next[1]]
                             /\ run' = [run EXCEPT ![t] = next[2]]
                             /\ fat_tails' = [fat_tails EXCEPT
                                               ![t] = @ + (IF miss[2] THEN 1 ELSE 0)]
                             /\ UNCHANGED <<results, plan, venue, filter, library>>

\* After the loop: the final flush of every category unless the filter is
\* switched off, then the SessionResult.  Inside run_venue_simulation the
\* return ends the closure of bay t.
EndOfSession(t) ==
    /\ run[t].pc = "loop"
    /\ run[t].shot_num = run[t].config.num_shots
    /\ LET flushed == IF kalman_enabled(run[t].config)
                      THEN flush_remaining(player[t], 1, 0)
                      ELSE <<player[t], 0>>
       IN  /\ player' = [player EXCEPT ![t] = flushed[1]]
           /\ results' = [results EXCEPT
                            ![t] = Append(@, SessionResult(flushed[1], run[t], flushed[2]))]
           /\ run' = [run EXCEPT ![t] = idle_session(flushed[1])]
    /\ venue' = IF venue.pc = "map"
                THEN [venue EXCEPT !.finished = Append(@, t)]
                ELSE venue
    /\ UNCHANGED <<plan, fat_tails, filter, library>>

Next ==
    \/ \E t \in Tasks : CallAddShotToBatch(t)
    \/ \E t \in Tasks : CallUpdateSkill(t)
    \/ \E t \in Tasks : CallRunSession(t)
    \/ \E t \in Tasks : LoopIteration(t)
    \/ \E t \in Tasks : EndOfSession(t)

Spec == Init /\ [][Next]_vars

----------------------------------------------------------------------------
(* Claims about run_session *)

\* The target of the i-th iteration of a call
hole_of(local) == HOLE_CONFIGURATIONS[local.hole_id]

\* The estimate the i-th iteration of a call found for its target: the one
\* the iteration before left, or the one the call was entered with.
estimate_before(st, i) ==
    IF i = 1
    THEN st.start_profiles[hole_of(st.locals[i]).category].kalman_filter.estimate
    ELSE st.locals[i - 1].estimates_after[hole_of(st.locals[i]).category]

\* C1: in run_session the shots of the result are num_shots outcomes in step
\* order, and the P_max that prices the shot of step n+1 is computed from
\* the estimate left by every update step n triggered.
C1_StepOrderAndPricing ==
    \A t \in Tasks :
        /\ \A i \in 1..Len(results[t]) :
            LET r == results[t][i]
            IN  /\ Len(r.shots) = r.config.num_shots
                /\ Len(r.locals) = r.config.num_shots
                /\ \A n \in 1..Len(r.shots) :
                    /\ r.locals[n].shot_num = n - 1
                    /\ r.shots[n].hole_id = r.locals[n].hole_id
                    /\ r.shots[n].multiplier =
                          calculate_payout(hole_of(r.locals[n]),
                                           r.shots[n].miss_distance_ft,
                                           r.locals[n].p_max)
        /\ run[t].pc = "loop" /\ run[t].shot_num > 0 =>
            LET st == run[t]
                n  == st.shot_num
            IN  /\ Len(st.shots) = n
                /\ Len(st.locals) = n
                /\ st.locals[n].shot_num = n - 1
                /\ st.locals[n].p_max =
                      p_max_for_sigma(hole_of(st.locals[n]), estimate_before(st, n))
                /\ st.locals[n].estimates_after = estimates(player[t])

\* A returned session in which a step updated the estimate of the category
\* and the next step on the same target was priced differently.
C1_Witness ==
    \E t \in Tasks : \E i \in 1..Len(results[t]) :
        LET r == results[t][i]
        IN  /\ Len(r.shots) = r.config.num_shots
            /\ \E n \in 1..(Len(r.locals) - 1) :
                /\ r.locals[n].updates > 0
                /\ r.locals[n + 1].hole_id = r.locals[n].hole_id
                /\ r.locals[n + 1].p_max # r.locals[n].p_max

\* developer_mode = Some(DeveloperMode { disable_kalman: true, .. })
disable_kalman_set(config) ==
    config.developer_mode.is_some /\ config.developer_mode.disable_kalman

\* C2: for a high-stakes wager the pending batch is flushed before the shot
\* is run, so the P_max that prices the high-stakes shot is computed from the
\* estimate after that pre-flush.
C2_PricedAfterPreFlush ==
    \A t \in Tasks :
        run[t].pc = "loop" /\ run[t].shot_num > 0 =>
            LET l == run[t].locals[run[t].shot_num]
            IN  l.is_high_stakes =>
                    l.p_max = p_max_for_sigma(hole_of(l), l.sigma_pre_flushed)

\* The two sessions of validate_high_stakes_logic: all shots of the first at
\* one wager w, all shots of the second at 10 w, on the same fixed target.
TenfoldSessions(a, b) ==
    /\ a.config.wager_min = a.config.wager_max
    /\ b.config.wager_min = b.config.wager_max
    /\ b.config.wager_min = 10 * a.config.wager_min
    /\ a.config.hole_selection.kind = "Fixed"
    /\ b.config.hole_selection = a.config.hole_selection
    /\ ~disable_kalman_set(a.config) /\ ~disable_kalman_set(b.config)

\* C3: after a session at wager w, every shot of a second session of n shots
\* at wager 10 w on the same target is detected as high-stakes, and the
\* second session performs at least n more updates than the first.
C3_SecondSessionAllHighStakes ==
    \A t \in Tasks :
        Len(results[t]) >= 2 /\ TenfoldSessions(results[t][1], results[t][2]) =>
            LET a == results[t][1]
                b == results[t][2]
            IN  /\ b.num_high_stakes_shots >= b.config.num_shots
                /\ b.num_kalman_updates >= a.num_kalman_updates + b.config.num_shots

\* A configuration run_session should reject: a target id outside the
\* catalog or an empty wager range.
malformed(config) ==
    \/ config.wager_min > config.wager_max
    \/ /\ config.hole_selection.kind = "Fixed"
       /\ get_hole_by_id(config.hole_selection.id) = <<>>
    \/ /\ config.hole_selection.kind = "Weighted"
       /\ \E i \in 1..Len(config.hole_selection.weights) :
              get_hole_by_id(config.hole_selection.weights[i][1]) = <<>>

\* C4: run_session never panics, and under a malformed configuration it
\* simulates no shot and leaves the player as it found it.
C4_MalformedConfigRejected ==
    \A t \in Tasks :
        /\ run[t].pc # "panicked"
        /\ run[t].pc = "loop" /\ malformed(run[t].config) =>
              /\ run[t].shots = <<>>
              /\ player[t].skill_profiles = run[t].start_profiles

\* Every shot of the call on one target was priced with the same P_max.
same_p_max_per_target(locals) ==
    \A i, j \in 1..Len(locals) :
        locals[i].hole_id = locals[j].hole_id => locals[i].p_max = locals[j].p_max

\* C5: with disable_kalman = true run_session performs no update: both
\* counters are 0, the estimate, covariance, pending batch and P_max history
\* of every category are those the call was entered with, and every shot on
\* one target is priced with the same P_max.
C5_DisableKalmanFrame ==
    \A t \in Tasks :
        /\ run[t].pc = "loop" /\ disable_kalman_set(run[t].config) =>
              /\ run[t].num_kalman_updates = 0
              /\ run[t].num_high_stakes_shots = 0
              /\ player[t].skill_profiles = run[t].start_profiles
              /\ same_p_max_per_target(run[t].locals)
        /\ \A i \in 1..Len(results[t]) :
              LET r == results[t][i]
              IN  disable_kalman_set(r.config) =>
                      /\ r.num_kalman_updates = 0
                      /\ r.num_high_stakes_shots = 0
                      /\ r.final_profiles = r.start_profiles
                      /\ player[t].skill_profiles = r.start_profiles
                      /\ same_p_max_per_target(r.locals)

\* A returned session with the filter switched off, entered with a pending
\* shot, in which a wager of ten times the pending one was played.
C5_Witness ==
    \E t \in Tasks : \E i \in 1..Len(results[t]) :
        LET r == results[t][i]
        IN  /\ disable_kalman_set(r.config)
            /\ Len(r.shots) >= 2
            /\ \E c \in Categories :
                 /\ r.start_profiles[c].shot_batch # <<>>
                 /\ \E n \in 1..Len(r.shots) :
                      /\ HOLE_CONFIGURATIONS[r.shots[n].hole_id].category = c
                      /\ r.shots[n].wager >= 10 * r.start_profiles[c].shot_batch[1].wager

----------------------------------------------------------------------------
(* Two executions of the same call: equal players, the same configuration. *)
(* SessionConfig has no seed and run_session takes no generator: every     *)
(* execution draws from its own rand::thread_rng().                        *)

Executions == {1, 2}

RepeatedConfigs ==
    { SessionConfig(MaxShots, 10, 10, Fixed(4), NoDeveloperMode, 0),
      SessionConfig(MaxShots, 1, 10, Fixed(4), DeveloperMode(TRUE, 500, FALSE), 0) }

InitRepeated ==
    \E handicap \in Handicaps, config \in RepeatedConfigs :
        /\ player = [t \in Executions |-> NewPlayer(1, handicap)]
        /\ run = [t \in Executions |-> idle_session(player[t])]
        /\ results = [t \in Executions |-> <<>>]
        /\ plan = [t \in Executions |-> <<RunSession(config)>>]
        /\ fat_tails = [t \in Executions |-> 0]
        /\ venue = NoVenue
        /\ filter = NoFilter
        /\ LibraryIdle

NextRepeated ==
    \/ \E t \in Tasks : CallRunSession(t)
    \/ \E t \in Tasks : LoopIteration(t)
    \/ \E t \in Tasks : EndOfSession(t)

SpecRepeated == InitRepeated /\ [][NextRepeated]_vars

\* C6: two runs of a session from equal player states with the same
\* configuration (and seed) yield the same shots, totals and final filter
\* states.
C6_Deterministic ==
    \A t1, t2 \in Tasks :
        Len(results[t1]) = 1 /\ Len(results[t2]) = 1 =>
            /\ results[t1][1].shots = results[t2][1].shots
            /\ results[t1][1].total_wagered = results[t2][1].total_wagered
            /\ results[t1][1].total_won = results[t2][1].total_won
            /\ results[t1][1].final_profiles = results[t2][1].final_profiles

----------------------------------------------------------------------------
(* simulators/venue.rs: run_venue_simulation *)

MaxShotsPerHour == 1

\* struct VenueConfig; hours in Unit.hour, wager_range in dollars
VenueConfig(num_bays, hours, shots_per_hour) ==
    [num_bays |-> num_bays, hours |-> hours, shots_per_hour |-> shots_per_hour,
     wager_range |-> <<10, 10>>]

\* One hour, one hour and a half, no time at all, and a venue without bays
VenueConfigs ==
    { VenueConfig(2, 1 * Unit.hour, MaxShotsPerHour),
      VenueConfig(2, 15, 1),
      VenueConfig(2, 0, 1),
      VenueConfig(0, 1 * Unit.hour, 1) }

\* rng draws of generate_player_pool: the handicaps of the bays' players
PlayerPools == { <<15, 30>>, <<30, 30>>, <<4, 5>> }

\* (num_bays as f64 * hours * shots_per_hour as f64) as usize
total_shots(config) ==
    (config.num_bays * config.hours * config.shots_per_hour) \div Unit.hour

shots_per_bay(config) == total_shots(config) \div config.num_bays

\* The SessionConfig every bay's closure builds; fat_tail_prob and
\* fat_tail_mult are those of SessionConfig::default()
bay_session_config(config) ==
    SessionConfig(shots_per_bay(config), config.wager_range[1],
                  config.wager_range[2], Random, NoDeveloperMode, 2)

\* .collect() of the parallel iterator returns when every bay's closure has
\* returned
collect_partial(finished, num_bays) == Len(finished) >= 1

collect_returns(finished, num_bays) == Len(finished) = num_bays

\* The shots of the session results a bay has returned
RECURSIVE bay_shots(_)
bay_shots(rs) == IF rs = <<>> THEN <<>> ELSE Head(rs).shots \o bay_shots(Tail(rs))

\* all_shots.extend(session_result.shots.clone()) for the bays from b on
RECURSIVE all_shots_from(_, _, _)
all_shots_from(rs, b, num_bays) ==
    IF b > num_bays THEN <<>>
    ELSE bay_shots(rs[b]) \o all_shots_from(rs, b + 1, num_bays)

\* The bin without the cap at 10
payout_bin_uncapped(multiplier) == multiplier \div Unit.mult

\* build_payout_distribution: the bin of a multiplier
payout_bin(multiplier) ==
    IF multiplier >= 10 * Unit.mult THEN 10 ELSE multiplier \div Unit.mult

build_payout_distribution(shots) ==
    [bin \in 0..10 |->
        Cardinality({i \in 1..Len(shots) : payout_bin(shots[i].multiplier) = bin})]

\* The row with the upper ends of the ranges left out
handicap_bin_open(handicap) ==
    IF handicap < 4 THEN 0
    ELSE IF handicap < 9 THEN 1
    ELSE IF handicap < 14 THEN 2
    ELSE IF handicap < 19 THEN 3
    ELSE IF handicap < 24 THEN 4
    ELSE 5

\* build_heatmap: the row of a handicap
handicap_bin(handicap) ==
    IF handicap <= 4 THEN 0
    ELSE IF handicap <= 9 THEN 1
    ELSE IF handicap <= 14 THEN 2
    ELSE IF handicap <= 19 THEN 3
    ELSE IF handicap <= 24 THEN 4
    ELSE 5

\* build_heatmap: count_matrix and hold_matrix (profit in cents) after the
\* loop over bay_results, hold_percentages in 1/10000
build_heatmap(players, rs, num_bays) ==
    LET cell(hb, hole_idx) ==
            {e \in UNION {{<<b, i>> : i \in 1..Len(bay_shots(rs[b]))} : b \in 1..num_bays} :
                /\ handicap_bin(players[e[1]].handicap) = hb
                /\ bay_shots(rs[e[1]])[e[2]].hole_id = HOLE_CONFIGURATIONS[hole_idx + 1].id}
        profit(e) == bay_shots(rs[e[1]])[e[2]].wager * 100 - bay_shots(rs[e[1]])[e[2]].payout
        RECURSIVE sum_profit(_)
        sum_profit(es) ==
            IF es = {} THEN 0
            ELSE LET e == CHOOSE x \in es : TRUE
                 IN  profit(e) + sum_profit(es \ {e})
        count_matrix == [hb \in 0..5 |-> [hole_idx \in 0..7 |-> Cardinality(cell(hb, hole_idx))]]
        hold_matrix  == [hb \in 0..5 |-> [hole_idx \in 0..7 |-> sum_profit(cell(hb, hole_idx))]]
    IN  [ handicap_bins |-> <<"0-4", "5-9", "10-14", "15-19", "20-24", "25-30">>,
          distance_bins |-> [i \in 1..8 |-> HOLE_CONFIGURATIONS[i].distance_yds],
          count_matrix |-> count_matrix,
          hold_matrix  |-> hold_matrix,
          hold_percentages |->
              [hb \in 0..5 |-> [hole_idx \in 0..7 |->
                  IF count_matrix[hb][hole_idx] > 0
                  THEN (hold_matrix[hb][hole_idx] * 10) \div count_matrix[hb][hole_idx]
                  ELSE 0]] ]

\* The loop "for (_player, session_result) in &bay_results" from bay b on:
\* the sum of one field of the session results
RECURSIVE sum_results_from(_, _, _, _)
sum_results_from(rs, field, b, num_bays) ==
    IF b > num_bays THEN 0
    ELSE SumSeq([i \in 1..Len(rs[b]) |-> rs[b][i][field]])
             + sum_results_from(rs, field, b + 1, num_bays)

\* An f64 that can be NaN or infinite: x / y, and x * n for a whole n >= 0.
\* A finite value is a whole number of 1/100 of its unit.
F64(value) == [class |-> "finite", value |-> value]

F64Div(x, y) ==
    IF y # 0 THEN F64((x * 100) \div y)
    ELSE IF x = 0 THEN [class |-> "nan", value |-> 0]
    ELSE [class |-> "inf", value |-> IF x > 0 THEN 1 ELSE -1]

F64Times(x, n) ==
    IF x.class = "finite" THEN F64(x.value * n)
    ELSE IF x.class = "inf" /\ n # 0 THEN x
    ELSE [class |-> "nan", value |-> 0]

\* "Calculate profit over time": the points (hour, cumulative) for hour in
\* 0..=(hours as usize), cumulative in 1/100 cent
profit_over_time(net_profit, hours) ==
    LET profit_per_hour == F64Div(net_profit * Unit.hour, hours)
    IN  [i \in 1..(hours \div Unit.hour + 1) |->
            [hour |-> i - 1, cumulative |-> F64Times(profit_per_hour, i - 1)]]

\* struct VenueResult (money: total_wagered in dollars, total_payouts and
\* net_profit in cents, hold_percentage in 1/10000)
VenueResult(players, rs, config) ==
    LET total_wagered == sum_results_from(rs, "total_wagered", 1, config.num_bays)
        total_payouts == sum_results_from(rs, "total_won", 1, config.num_bays)
        all_shots     == all_shots_from(rs, 1, config.num_bays)
        net_profit    == total_wagered * 100 - total_payouts
    IN  [ total_wagered |-> total_wagered,
          total_payouts |-> total_payouts,
          net_profit    |-> net_profit,
          hold_percentage |->
              IF total_wagered > 0 THEN (net_profit * 100) \div total_wagered ELSE 0,
          profit_over_time |-> profit_over_time(net_profit, config.hours),
          heatmap_data  |-> build_heatmap(players, rs, config.num_bays),
          payout_distribution |-> build_payout_distribution(all_shots),
          total_shots   |-> Len(all_shots) ]

\* run_venue_simulation up to the parallel map.  total_shots / num_bays
\* panics (division by zero) for a venue without bays.
InitVenue ==
    \E config \in VenueConfigs, pool \in PlayerPools :
        /\ player = [b \in 1..config.num_bays |-> NewPlayer(b, pool[b])]
        /\ run = [b \in 1..config.num_bays |-> idle_session(player[b])]
        /\ results = [b \in 1..config.num_bays |-> <<>>]
        /\ plan = [b \in 1..config.num_bays |->
                     <<RunSession(bay_session_config(config))>>]
        /\ fat_tails = [b \in 1..config.num_bays |-> 0]
        /\ venue = [pc |-> IF config.num_bays = 0 THEN "panicked" ELSE "map",
                    config |-> config, finished |-> <<>>, result |-> <<>>]
        /\ filter = NoFilter
        /\ LibraryIdle

\* "Aggregate results" and what follows it, once collect() has returned
Aggregate ==
    /\ venue.pc = "map"
    /\ collect_returns(venue.finished, venue.config.num_bays)
    /\ venue' = [venue EXCEPT
                    !.pc = "done",
                    !.result = <<VenueResult(player, results, venue.config)>>]
    /\ UNCHANGED <<player, run, results, plan, fat_tails, filter, library>>

(* analytics/export.rs: export_heatmap_csv *)

\* format!("{:.2}", hold_pct) of a value in 1/10000: the hundredths nearest
\* to it
format_2dp(v) == IF v >= 0 THEN (v + 50) \div 100 ELSE -((50 - v) \div 100)

\* The records export_heatmap_csv writes: the header, and for the i-th
\* distance a row of the distance and one cell per handicap bin j.  Rows,
\* cells, hold_percentages and its rows are indexed from 0 as in the source.
export_heatmap_csv(heatmap) ==
    [ header |-> <<"Distance (yds)">> \o heatmap.handicap_bins,
      rows |->
        [i \in 0..(Len(heatmap.distance_bins) - 1) |->
            [ distance |-> heatmap.distance_bins[i + 1],
              cells |->
                [j \in 0..(Len(heatmap.handicap_bins) - 1) |->
                    IF /\ i < Cardinality(DOMAIN heatmap.hold_percentages)
                       /\ j < Cardinality(DOMAIN heatmap.hold_percentages[i])
                    THEN format_2dp(heatmap.hold_percentages[i][j])
                    ELSE 0] ]] ]

\* export_heatmap_csv(&result.heatmap_data, path) on the venue's result
ExportHeatmapCsv ==
    /\ venue.pc = "done"
    /\ export = NoCall
    /\ export' = [pc |-> "export_heatmap_csv",
                  file |-> export_heatmap_csv(venue.result[1].heatmap_data)]
    /\ UNCHANGED <<player, run, results, plan, fat_tails, venue, filter,
                   hole_call, tournament, detector, cli>>

NextVenue ==
    \/ \E t \in Tasks : CallRunSession(t)
    \/ \E t \in Tasks : LoopIteration(t)
    \/ \E t \in Tasks : EndOfSession(t)
    \/ Aggregate
    \/ ExportHeatmapCsv

SpecVenue == InitVenue /\ [][NextVenue]_vars

\* The number of shots of a session result in one bin of the histogram
shots_in_bin(r, bin) ==
    Cardinality({i \in 1..Len(r.shots) : payout_bin(r.shots[i].multiplier) = bin})

\* The number of shots of a session result on one target
shots_on_hole(r, hole_idx) ==
    Cardinality({i \in 1..Len(r.shots) :
                    r.shots[i].hole_id = HOLE_CONFIGURATIONS[hole_idx + 1].id})

\* C7: in run_venue_simulation, under every interleaving of the bays, the
\* session of a bay reads and writes only the filter state of its own
\* player, aggregation starts only after every bay has finished, and the
\* aggregated total_wagered, total_payouts, total_shots, histogram and
\* heatmap counts are the sums over the per-bay session results, taken in
\* the order the bays completed.
C7_BaysDisjointAndAggregated ==
    /\ \A b \in Tasks :
        /\ run[b].pc = "loop" /\ run[b].shot_num = 0 =>
              player[b].skill_profiles = run[b].start_profiles
        /\ run[b].pc = "loop" /\ run[b].shot_num > 0 =>
              LET st == run[b]
                  n  == st.shot_num
              IN  /\ st.locals[n].p_max =
                        p_max_for_sigma(hole_of(st.locals[n]), estimate_before(st, n))
                  /\ st.locals[n].estimates_after = estimates(player[b])
        /\ \A i \in 1..Len(results[b]) :
              player[b].skill_profiles = results[b][i].final_profiles
    /\ venue.pc = "done" =>
        LET done == venue.finished
            r(k) == results[done[k]][1]
            out  == venue.result[1]
        IN  /\ \A b \in Tasks : Len(results[b]) = 1 /\ run[b].pc = "idle"
            /\ {done[k] : k \in 1..Len(done)} = Tasks
            /\ out.total_wagered = SumSeq([k \in 1..Len(done) |-> r(k).total_wagered])
            /\ out.total_payouts = SumSeq([k \in 1..Len(done) |-> r(k).total_won])
            /\ out.total_shots = SumSeq([k \in 1..Len(done) |-> Len(r(k).shots)])
            /\ \A bin \in 0..10 :
                  out.payout_distribution[bin] =
                      SumSeq([k \in 1..Len(done) |-> shots_in_bin(r(k), bin)])
            /\ \A hb \in 0..5, hole_idx \in 0..7 :
                  out.heatmap_data.count_matrix[hb][hole_idx] =
                      SumSeq([k \in 1..Len(done) |->
                                IF handicap_bin(player[done[k]].handicap) = hb
                                THEN shots_on_hole(r(k), hole_idx) ELSE 0])

\* The venue has aggregated, the last bay completed first, and two bays put
\* shots into the same cell of the heatmap.
C7_Witness ==
    /\ venue.pc = "done"
    /\ venue.finished[1] = venue.config.num_bays
    /\ venue.result[1].total_shots >= 2
    /\ \E hb \in 0..5, hole_idx \in 0..7 :
          venue.result[1].heatmap_data.count_matrix[hb][hole_idx] >= 2

----------------------------------------------------------------------------
(* math/kalman.rs: a KalmanState driven by its own calls *)

MaxFilterCalls == 3

\* error_covariance of the filter at the start (Unit.cov): that of
\* KalmanState::new and values it has after updates
FilterCovariances == {InitialErrorCovariance, 9099, MinMeasurementNoise, 500}

\* initial_sigma of KalmanState::new (Unit.ft)
FilterEstimates == {1542, 2671, 5930}

\* the measurement z (Unit.ft)
FilterMeasurements == {500, 2000, 6000}

\* the measurement noise R (Unit.cov)
FilterNoises == {100, MinMeasurementNoise, DefaultVariance, InitialErrorCovariance}

InitFilter ==
    \E sigma \in FilterEstimates, p \in FilterCovariances :
        /\ filter = [ last |-> "new", calls |-> 0, updates |-> 0,
                      kf |-> [KalmanNew(sigma, ProcessNoise) EXCEPT !.error_covariance = p],
                      before |-> KalmanNew(sigma, ProcessNoise),
                      measurement |-> 0, measurement_noise |-> 0 ]
        /\ player = [t \in {1} |-> NewPlayer(1, 15)]
        /\ run = [t \in {1} |-> idle_session(player[t])]
        /\ results = [t \in {1} |-> <<>>]
        /\ plan = [t \in {1} |-> <<>>]
        /\ fat_tails = [t \in {1} |-> 0]
        /\ venue = NoVenue
        /\ LibraryIdle

\* kf.predict()
FilterPredict ==
    /\ filter.last # "none"
    /\ filter.calls < MaxFilterCalls
    /\ filter' = [filter EXCEPT !.last = "predict", !.calls = @ + 1, !.updates = 0,
                                !.before = filter.kf,
                                !.kf = predict(filter.kf)]
    /\ UNCHANGED <<player, run, results, plan, fat_tails, venue, library>>

\* kf.update(z, R); updates counts the updates since the last predict
FilterUpdate ==
    /\ filter.last # "none"
    /\ filter.calls < MaxFilterCalls
    /\ \E z \in FilterMeasurements, r \in FilterNoises :
        filter' = [filter EXCEPT !.last = "update", !.calls = @ + 1,
                                 !.updates = @ + 1,
                                 !.before = filter.kf,
                                 !.measurement = z, !.measurement_noise = r,
                                 !.kf = update(filter.kf, z, r)]
    /\ UNCHANGED <<player, run, results, plan, fat_tails, venue, library>>

NextFilter == FilterPredict \/ FilterUpdate

SpecFilter == InitFilter /\ [][NextFilter]_vars

between(x, a, b) == (a <= x /\ x <= b) \/ (b <= x /\ x <= a)

\* C9: for a filter with covariance P > 0, an update(z, R) with R > 0 yields
\* 0 < P_new <= P_old, and with a positive estimate and a positive
\* measurement the new estimate is positive and lies between the old
\* estimate and z.
C9_UpdateContracts ==
    filter.last = "update"
    /\ filter.before.error_covariance > 0
    /\ filter.measurement_noise > 0 =>
        /\ 0 < filter.kf.error_covariance
        /\ filter.kf.error_covariance <= filter.before.error_covariance
        /\ filter.before.estimate > 0 /\ filter.measurement > 0 =>
              /\ filter.kf.estimate > 0
              /\ between(filter.kf.estimate, filter.before.estimate,
                         filter.measurement)

\* The second of two updates with no predict between them lowered the
\* covariance and moved the estimate strictly between the old one and z.
C9_Witness ==
    /\ filter.last = "update"
    /\ filter.updates >= 2
    /\ 0 < filter.kf.error_covariance
    /\ filter.kf.error_covariance < filter.before.error_covariance
    /\ filter.kf.estimate # filter.before.estimate
    /\ filter.kf.estimate # filter.measurement
    /\ between(filter.kf.estimate, filter.before.estimate, filter.measurement)

----------------------------------------------------------------------------
(* Claims about Player::update_skill, on the calls the sessions of Spec make *)

\* The entries of the covariance history of every category of every player
update_entries ==
    UNION { UNION { { player[t].skill_profiles[c].update_log[k] :
                        k \in 1..Len(player[t].skill_profiles[c].update_log) } :
                    c \in Categories } :
            t \in Tasks }

----------------------------------------------------------------------------
(* Claims about the odds engine, on the shots the sessions of Spec price *)

\* The expected payout multiplier, in 1/10000, of the shot the driver
\* samples for the estimate sigma and prices with p_max: fat_tail_shot draws
\* rayleigh_random(sigma * fat_tail_mult) with probability fat_tail_prob and
\* rayleigh_random(sigma) otherwise.
expected_multiplier(hole, sigma, p_max, fat_tail_prob, fat_tail_mult) ==
    LET upper_bound == integration_bound(hole, sigma)
        plain == expected_payout(hole, sigma, upper_bound) \div 100
        fat   == IF fat_tail_prob = 0 THEN 0
                 ELSE expected_payout(hole, (sigma * fat_tail_mult) \div 100,
                                      upper_bound) \div 100
        mixed == (100 - fat_tail_prob) * plain + fat_tail_prob * fat
    IN  ((mixed \div 10000) * p_max) \div 1000

\* $0.10 on a $10 wager, in 1/10000 of the wager
MaxEvSpread == 100

\* C8: P_max = rtp / I(sigma) makes the expected payout multiplier of a shot
\* sampled by the driver equal to the rtp of the target, for every target
\* and every estimate (to $0.10 on a $10 wager).
C8_ExpectedMultiplierIsRtp ==
    \A t \in Tasks :
        run[t].pc = "loop" /\ run[t].shot_num > 0
        /\ ~run[t].config.developer_mode.manual_is_some =>
            LET l == run[t].locals[run[t].shot_num]
                em == expected_multiplier(hole_of(l), l.current_sigma, l.p_max,
                                          run[t].config.fat_tail_prob,
                                          run[t].config.fat_tail_mult)
            IN  Abs(em - hole_of(l).rtp * 100) <= MaxEvSpread

----------------------------------------------------------------------------
(* models/hole.rs driven on its own: catalog lookups and payout calls *)

\* id: u8, the ends of its range and the ids around the catalog's
HoleIds == (0..12) \cup {255}

\* p_max of a payout call (Unit.mult): 0.01x, 1x, 10x
PMaxDraws == {1, 100, 1000}

\* miss distances of a payout call (Unit.ft): the eighths of d_max, the edge
\* itself, just beyond it and twice as far
PayoutDistances(hole) ==
    {(j * hole.d_max_ft) \div 8 : j \in 0..8} \cup {hole.d_max_ft + 1, 2 * hole.d_max_ft}

InitHole ==
    /\ player = <<NewPlayer(1, 15)>>
    /\ run = <<idle_session(NewPlayer(1, 15))>>
    /\ results = <<<<>>>>
    /\ plan = [t \in {1} |-> <<>>]
    /\ fat_tails = [t \in {1} |-> 0]
    /\ venue = NoVenue
    /\ filter = NoFilter
    /\ LibraryIdle

\* get_hole_by_id(id)
GetHoleById ==
    /\ \E id \in HoleIds :
          hole_call' = [pc |-> "get_hole_by_id", id |-> id, result |-> get_hole_by_id(id)]
    /\ UNCHANGED <<player, run, results, plan, fat_tails, venue, filter,
                   tournament, detector, cli, export>>

\* hole.calculate_payout(miss_distance, p_max) on a catalog target; before
\* holds the call before this one when it was on the same target with the
\* same p_max
CalculatePayout ==
    /\ \E id \in 1..8, p_max \in PMaxDraws :
          LET hole == HOLE_CONFIGURATIONS[id]
              same == /\ hole_call.pc = "calculate_payout"
                      /\ hole_call.id = id
                      /\ hole_call.p_max = p_max
          IN  \E d \in PayoutDistances(hole) :
                hole_call' =
                    [pc |-> "calculate_payout", id |-> id, p_max |-> p_max,
                     miss_distance |-> d,
                     result |-> calculate_payout(hole, d, p_max),
                     before |-> IF same
                                THEN <<[miss_distance |-> hole_call.miss_distance,
                                        result |-> hole_call.result]>>
                                ELSE <<>>]
    /\ UNCHANGED <<player, run, results, plan, fat_tails, venue, filter,
                   tournament, detector, cli, export>>

NextHole ==
    \/ GetHoleById
    \/ CalculatePayout

SpecHole == InitHole /\ [][NextHole]_vars

\* The configurations validate_hole_configurations expects:
\* (id, distance_yds, d_max_ft, rtp, k)
expected_configs ==
    << <<1, 75, 1795, 86, 50>>,  <<2, 100, 2569, 86, 50>>,
       <<3, 125, 3671, 88, 55>>, <<4, 150, 4758, 88, 60>>,
       <<5, 175, 5909, 88, 60>>, <<6, 200, 7358, 90, 65>>,
       <<7, 225, 8484, 90, 65>>, <<8, 250, 10114, 90, 65>> >>

\* C11: get_hole_by_id(i) for i = 1..8 returns the target with id i at
\* 75 + 25 (i - 1) yards with the expected d_max and k and with rtp 0.86 for
\* targets 1-2, 0.88 for 3-5 and 0.90 for 6-8; any other id returns nothing.
C11_CatalogMatchesBusinessPlan ==
    hole_call.pc = "get_hole_by_id" =>
        IF hole_call.id \in 1..8
        THEN /\ Len(hole_call.result) = 1
             /\ LET hole == hole_call.result[1]
                    e    == expected_configs[hole_call.id]
                IN  /\ hole.id = hole_call.id
                    /\ hole.distance_yds = e[2]
                    /\ hole.d_max_ft = e[3]
                    /\ hole.rtp = e[4]
                    /\ hole.k = e[5]
        ELSE hole_call.result = <<>>

\* C20: on every target and for every p_max > 0 the multiplier is p_max at
\* d = 0 and 0 for d >= d_max, lies in [0, p_max] for every d >= 0, and
\* decreases from one call to the next when the miss distance grows within
\* [0, d_max]: strictly, down to the multiplier's resolution of 0.01x.
C20_PayoutCurve ==
    hole_call.pc = "calculate_payout" =>
        LET hole == HOLE_CONFIGURATIONS[hole_call.id]
            d    == hole_call.miss_distance
            m    == hole_call.result
        IN  /\ d = 0 => m = hole_call.p_max
            /\ d >= hole.d_max_ft => m = 0
            /\ 0 <= m /\ m <= hole_call.p_max
            /\ \A b \in {hole_call.before[i] : i \in DOMAIN hole_call.before} :
                  b.miss_distance < d /\ d <= hole.d_max_ft =>
                      /\ m <= b.result
                      /\ m < b.result \/ b.result = 0

\* Two calls in a row on one target: the first inside the scoring radius
\* with a positive multiplier, the second farther out and paying less; and
\* a call beyond the radius.
C20_Witness ==
    /\ hole_call.pc = "calculate_payout"
    /\ hole_call.before # <<>>
    /\ hole_call.before[1].miss_distance > 0
    /\ hole_call.before[1].miss_distance < hole_call.miss_distance
    /\ hole_call.miss_distance < HOLE_CONFIGURATIONS[hole_call.id].d_max_ft
    /\ 0 < hole_call.result
    /\ hole_call.result < hole_call.before[1].result

----------------------------------------------------------------------------
(* simulators/tournament.rs *)

MaxPlayers == 11

MaxAttempts == 2

\* f64::MAX, the best miss of a player without attempts
F64_MAX == 2147483647

LongestDrive == [kind |-> "LongestDrive", hole_id |-> 0]

ClosestToPin(hole_id) == [kind |-> "ClosestToPin", hole_id |-> hole_id]

WinnerTakesAll == [kind |-> "WinnerTakesAll", first |-> 0, second |-> 0, third |-> 0]

Top2(first, second) == [kind |-> "Top2", first |-> first, second |-> second, third |-> 0]

Top3(first, second, third) == [kind |-> "Top3", first |-> first, second |-> second, third |-> third]

\* struct TournamentConfig: entry_fee in dollars, house_rake_percent and the
\* shares in Unit.pct
TournamentConfig(game_mode, num_players, entry_fee, house_rake_percent, payout_structure, attempts_per_player) ==
    [ game_mode |-> game_mode, num_players |-> num_players, entry_fee |-> entry_fee,
      house_rake_percent |-> house_rake_percent,
      payout_structure |-> payout_structure,
      attempts_per_player |-> attempts_per_player ]

\* amount * pct for an amount that is a whole number of Unit.pct
TimesPercent(amount, pct) == (amount \div Unit.pct) * pct

\* One attempt of simulate_player_tournament_attempts for the draws roll, r
attempt_score(handicap, game_mode, roll, r) ==
    IF game_mode.kind = "LongestDrive"
    THEN LET base_distance == 250 * Unit.ft - handicap * 3 * Unit.ft
             variance      == 20 * Unit.ft
             random_offset == simulate_shot(variance, 2, 300, roll, r)[1]
         IN  base_distance + random_offset - variance
    ELSE LET hole  == get_hole_by_id(game_mode.hole_id)[1]
             sigma == get_skill_for_hole(NewPlayer(0, handicap), hole).kalman_filter.estimate
         IN  simulate_shot(sigma, 2, 300, roll, r)[1]

\* The fold of the attempts: best_distance.max(distance) from 0.0, or
\* best_miss.min(miss_distance) from f64::MAX
RECURSIVE best_of(_, _, _)
best_of(game_mode, attempts, best) ==
    IF attempts = <<>> THEN best
    ELSE best_of(game_mode, Tail(attempts),
                 IF game_mode.kind = "LongestDrive"
                 THEN Max(best, Head(attempts)) ELSE Min(best, Head(attempts)))

simulate_player_tournament_attempts(handicap, config, draws) ==
    best_of(config.game_mode,
            [a \in 1..Len(draws) |->
                attempt_score(handicap, config.game_mode, draws[a][1], draws[a][2])],
            IF config.game_mode.kind = "LongestDrive" THEN 0 ELSE F64_MAX)

\* The comparator of scores.sort_by: a goes before b
sorts_before(a, b, game_mode) ==
    IF game_mode.kind = "LongestDrive" THEN a.score > b.score ELSE a.score < b.score

\* slice::sort_by is stable: an entry goes before the first entry it sorts
\* before, and after every entry that compares equal and came earlier
RECURSIVE insert_sorted(_, _, _)
insert_sorted(sorted, x, game_mode) ==
    IF sorted = <<>> THEN <<x>>
    ELSE IF sorts_before(x, Head(sorted), game_mode) THEN <<x>> \o sorted
         ELSE <<Head(sorted)>> \o insert_sorted(Tail(sorted), x, game_mode)

RECURSIVE sort_by(_, _, _)
sort_by(scores, sorted, game_mode) ==
    IF scores = <<>> THEN sorted
    ELSE sort_by(Tail(scores), insert_sorted(sorted, Head(scores), game_mode), game_mode)

\* distribute_prizes paying every rank the first share
distribute_prizes_first_share(leaderboard, structure, prize_pool) ==
    [i \in 1..Min(Len(leaderboard), 3) |->
        [id |-> leaderboard[i].id, amount |-> TimesPercent(prize_pool, structure.first)]]

\* distribute_prizes: the payouts (player id, amount) in rank order
distribute_prizes(leaderboard, structure, prize_pool) ==
    LET pay(i, amount) == [id |-> leaderboard[i].id, amount |-> amount]
        n == Len(leaderboard)
    IN  IF structure.kind = "WinnerTakesAll"
        THEN (IF n # 0 THEN <<pay(1, prize_pool)>> ELSE <<>>)
        ELSE IF structure.kind = "Top2"
        THEN (IF n >= 1 THEN <<pay(1, TimesPercent(prize_pool, structure.first))>> ELSE <<>>)
             \o (IF n >= 2 THEN <<pay(2, TimesPercent(prize_pool, structure.second))>> ELSE <<>>)
        ELSE (IF n >= 1 THEN <<pay(1, TimesPercent(prize_pool, structure.first))>> ELSE <<>>)
             \o (IF n >= 2 THEN <<pay(2, TimesPercent(prize_pool, structure.second))>> ELSE <<>>)
             \o (IF n >= 3 THEN <<pay(3, TimesPercent(prize_pool, structure.third))>> ELSE <<>>)

\* The TournamentResult run_tournament builds from the collected scores
TournamentResult(config, scores) ==
    LET leaderboard == sort_by(scores, <<>>, config.game_mode)
        total_pool  == config.entry_fee * Unit.money * config.num_players
        house_rake  == TimesPercent(total_pool, config.house_rake_percent)
        prize_pool  == total_pool - house_rake
    IN  [ leaderboard |-> leaderboard,
          total_pool  |-> total_pool,
          house_rake  |-> house_rake,
          prize_pool  |-> prize_pool,
          payouts     |-> distribute_prizes(leaderboard, config.payout_structure, prize_pool) ]

\* main.rs run_tournament_command up to the call of run_tournament: the
\* TournamentConfig it builds, or nothing when it prints an error and returns.
\* rake is the value of --rake in Unit.pct (the default "10.0" is 1000).
tournament_command_config(mode, hole, players, entry_fee, rake, payout, attempts) ==
    IF hole < 1 \/ hole > 8 THEN <<>>
    ELSE IF mode \notin {"longest", "ctp"} THEN <<>>
    ELSE IF payout \notin {"winner", "top2", "top3"} THEN <<>>
    ELSE << TournamentConfig(
                IF mode = "longest" THEN LongestDrive ELSE ClosestToPin(hole),
                players, entry_fee, rake,
                IF payout = "winner" THEN WinnerTakesAll
                ELSE IF payout = "top2" THEN Top2(70, 30) ELSE Top3(50, 30, 20),
                attempts) >>

\* The configurations run_tournament is called with: those of the library's
\* callers, and those the command line builds with its default --rake
TournamentConfigs ==
    { TournamentConfig(ClosestToPin(4), 3, 50, 10, Top3(60, 25, 15), MaxAttempts),
      TournamentConfig(LongestDrive, 3, 10, 5, WinnerTakesAll, MaxAttempts),
      TournamentConfig(LongestDrive, 2, 20, 10, Top2(70, 30), 1),
      TournamentConfig(ClosestToPin(4), 2, 20, 10, Top3(50, 30, 20), 1),
      TournamentConfig(ClosestToPin(9), 0, 20, 10, WinnerTakesAll, 1),
      TournamentConfig(ClosestToPin(9), 1, 20, 10, WinnerTakesAll, 1),
      TournamentConfig(LongestDrive, MaxPlayers, 20, 0, Top3(60, 25, 15), 0),
      TournamentConfig(ClosestToPin(1), MaxPlayers, 20, 100, Top2(70, 30), 0) }
    \cup { tournament_command_config("ctp", 4, 3, 20, 1000, "top3", 1)[1],
           tournament_command_config("longest", 4, 1, 20, 1000, "top2", 1)[1] }

\* rng draws of generate_player_pool(Uniform, size): the handicaps
TournamentPools(size) ==
    {[i \in 1..size |-> h] : h \in {5, 25}}
        \cup {[i \in 1..size |-> IF i % 2 = 1 THEN 25 ELSE 5]}

\* run_tournament after generate_player_pool
InitTournament ==
    /\ player = <<NewPlayer(1, 15)>>
    /\ run = <<idle_session(NewPlayer(1, 15))>>
    /\ results = <<<<>>>>
    /\ plan = [t \in {1} |-> <<>>]
    /\ fat_tails = [t \in {1} |-> 0]
    /\ venue = NoVenue
    /\ filter = NoFilter
    /\ hole_call = NoCall
    /\ detector = NoCall
    /\ cli = NoCall
    /\ export = NoCall
    /\ \E config \in TournamentConfigs :
         \E pool \in TournamentPools(config.num_players) :
            tournament = [pc |-> "scoring", config |-> config, handicaps |-> pool,
                          scores |-> <<>>, result |-> <<>>]

\* One step of players.iter().map(..): the score of the next player.
\* get_hole_by_id(hole_id).expect(..) panics on an id outside the catalog.
ScorePlayer ==
    /\ tournament.pc = "scoring"
    /\ Len(tournament.scores) < tournament.config.num_players
    /\ LET config == tournament.config
           i      == Len(tournament.scores) + 1
       IN  IF config.game_mode.kind = "ClosestToPin"
              /\ get_hole_by_id(config.game_mode.hole_id) = <<>>
           THEN tournament' = [tournament EXCEPT !.pc = "panicked"]
           ELSE \E draws \in [1..config.attempts_per_player ->
                                 FatRollDraws \X RayleighFactors] :
                   tournament' =
                       [tournament EXCEPT !.scores = Append(@,
                           [id |-> i - 1,
                            score |-> simulate_player_tournament_attempts(
                                          tournament.handicaps[i], config, draws)])]
    /\ UNCHANGED <<player, run, results, plan, fat_tails, venue, filter,
                   hole_call, detector, cli, export>>

\* The sort, the pools and the prizes
FinishTournament ==
    /\ tournament.pc = "scoring"
    /\ Len(tournament.scores) = tournament.config.num_players
    /\ tournament' = [tournament EXCEPT
                        !.pc = "done",
                        !.result = <<TournamentResult(tournament.config, tournament.scores)>>]
    /\ UNCHANGED <<player, run, results, plan, fat_tails, venue, filter,
                   hole_call, detector, cli, export>>

NextTournament ==
    \/ ScorePlayer
    \/ FinishTournament

SpecTournament == InitTournament /\ [][NextTournament]_vars

\* The decimal digits of the n in the id "player_{n}", n < 100
player_id_digits(n) == IF n < 10 THEN <<n>> ELSE <<n \div 10, n % 10>>

\* String order of two ids: a is lexicographically before b
RECURSIVE digits_before(_, _)
digits_before(a, b) ==
    IF a = <<>> THEN b # <<>>
    ELSE IF b = <<>> THEN FALSE
    ELSE IF Head(a) # Head(b) THEN Head(a) < Head(b)
    ELSE digits_before(Tail(a), Tail(b))

\* C12: the leaderboard has exactly one entry per player, is sorted
\* ascending by score for ClosestToPin and descending for LongestDrive, and
\* entries with equal scores are in lexicographic order of their ids.
C12_LeaderboardSortedTiesById ==
    tournament.pc = "done" =>
        LET board == tournament.result[1].leaderboard
            n     == tournament.config.num_players
        IN  /\ Len(board) = n
            /\ {board[i].id : i \in 1..Len(board)} = 0..(n - 1)
            /\ \A i, j \in 1..Len(board) :
                  i < j =>
                    /\ IF tournament.config.game_mode.kind = "LongestDrive"
                       THEN board[i].score >= board[j].score
                       ELSE board[i].score <= board[j].score
                    /\ board[i].score = board[j].score =>
                          digits_before(player_id_digits(board[i].id),
                                        player_id_digits(board[j].id))

\* C13: total_pool = entry_fee * num_players, house_rake = total_pool *
\* house_rake_percent with the percent a fraction in [0, 1], prize_pool =
\* total_pool - house_rake, 0 <= house_rake <= total_pool, prize_pool >= 0.
C13_PoolRakePrize ==
    tournament.pc = "done" =>
        LET r      == tournament.result[1]
            config == tournament.config
        IN  /\ r.total_pool = config.entry_fee * Unit.money * config.num_players
            /\ 0 <= config.house_rake_percent
            /\ config.house_rake_percent <= Unit.pct
            /\ r.house_rake = TimesPercent(r.total_pool, config.house_rake_percent)
            /\ r.prize_pool = r.total_pool - r.house_rake
            /\ 0 <= r.house_rake /\ r.house_rake <= r.total_pool
            /\ r.prize_pool >= 0

\* The shares of a payout structure in rank order
structure_shares(structure) ==
    IF structure.kind = "WinnerTakesAll" THEN <<Unit.pct>>
    ELSE IF structure.kind = "Top2" THEN <<structure.first, structure.second>>
    ELSE <<structure.first, structure.second, structure.third>>

\* C14: rank i is paid the i-th share of the prize pool for exactly the first
\* min(leaderboard length, structure size) ranks; with zero players the
\* leaderboard and the payouts are empty and pool and rake are 0; when the
\* shares sum to 1 and every rank exists the payouts sum to the prize pool.
C14_PrizesByRank ==
    tournament.pc = "done" =>
        LET r      == tournament.result[1]
            shares == structure_shares(tournament.config.payout_structure)
        IN  /\ Len(r.payouts) = Min(Len(r.leaderboard), Len(shares))
            /\ \A i \in 1..Len(r.payouts) :
                  /\ r.payouts[i].id = r.leaderboard[i].id
                  /\ r.payouts[i].amount = TimesPercent(r.prize_pool, shares[i])
            /\ tournament.config.num_players = 0 =>
                  /\ r.leaderboard = <<>> /\ r.payouts = <<>>
                  /\ r.total_pool = 0 /\ r.house_rake = 0
            /\ SumSeq(shares) = Unit.pct /\ Len(r.leaderboard) >= Len(shares) =>
                  SumSeq([i \in 1..Len(r.payouts) |-> r.payouts[i].amount]) = r.prize_pool

\* A tournament with fewer players than its structure has ranks has finished
\* and paid two different prizes, the second to the runner-up.
C14_Witness ==
    /\ tournament.pc = "done"
    /\ tournament.config.payout_structure.kind = "Top3"
    /\ Len(tournament.result[1].leaderboard) = 2
    /\ Len(tournament.result[1].payouts) = 2
    /\ tournament.result[1].payouts[2].amount > 0
    /\ tournament.result[1].payouts[2].amount < tournament.result[1].payouts[1].amount
    /\ tournament.result[1].leaderboard[1].id # 0

----------------------------------------------------------------------------
(* simulators/venue.rs: the totals and the time series of the VenueResult *)

\* C15: run_venue_simulation completes and reports total_shots = N =
\* num_bays * hours * shots_per_hour, every bay's session having simulated
\* exactly N / num_bays shots.
C15_TotalShots ==
    /\ venue.pc # "panicked"
    /\ venue.pc = "done" =>
          LET config == venue.config
              N_hours == config.num_bays * config.hours * config.shots_per_hour
          IN  /\ venue.result[1].total_shots * Unit.hour = N_hours
              /\ \A b \in Tasks :
                    Len(results[b][1].shots) * config.num_bays * Unit.hour = N_hours

\* C16: profit_over_time has one point (h, h * net_profit / hours) for each
\* hour h = 0..hours; the first point's cumulative profit is 0 and the last
\* point's is net_profit (to the cent).
C16_ProfitOverTime ==
    venue.pc = "done" =>
        LET points == venue.result[1].profit_over_time
            net    == venue.result[1].net_profit
            hours  == venue.config.hours
        IN  /\ Len(points) = hours \div Unit.hour + 1
            /\ \A i \in 1..Len(points) :
                  /\ points[i].hour = i - 1
                  /\ points[i].cumulative.class = "finite"
                  /\ Abs(points[i].cumulative.value * hours
                           - (i - 1) * net * Unit.hour * 100) <= 100 * Max(hours, 1)
            /\ points[1].cumulative = F64(0)
            /\ points[Len(points)].cumulative.class = "finite"
            /\ Abs(points[Len(points)].cumulative.value - net * 100) <= 100

----------------------------------------------------------------------------
(* anti_cheat.rs: detect_sandbagging on a log of shots.  In this section a
   shot's miss_distance_ft is in tenths of a foot, its wager in tenths of a
   dollar and its multiplier in Unit.mult; a confidence and a correlation
   are in hundredths. *)

\* The sum of a field over the log
field_sum(shots, field) == SumSeq([i \in 1..Len(shots) |-> shots[i][field]])

\* calculate_wager_quality_correlation: the Pearson correlation of wager and
\* multiplier, 0 for fewer than two shots or when either does not vary
calculate_wager_quality_correlation(shots) ==
    IF Len(shots) < 2 THEN 0
    ELSE LET n == Len(shots)
             mean_wager   == field_sum(shots, "wager") \div n
             mean_quality == field_sum(shots, "multiplier") \div n
             numerator ==
                 SumSeq([i \in 1..n |-> (shots[i].wager - mean_wager)
                                           * (shots[i].multiplier - mean_quality)])
             wager_variance ==
                 SumSeq([i \in 1..n |-> (shots[i].wager - mean_wager)
                                           * (shots[i].wager - mean_wager)])
             quality_variance ==
                 SumSeq([i \in 1..n |-> (shots[i].multiplier - mean_quality)
                                           * (shots[i].multiplier - mean_quality)])
         IN  IF wager_variance = 0 \/ quality_variance = 0 THEN 0
             ELSE (numerator * 100) \div (Isqrt(wager_variance) * Isqrt(quality_variance))

\* The sum of the wagers of shots[from..to]
wager_sum(shots, from, to) == SumSeq([i \in 1..(to - from + 1) |-> shots[from + i - 1].wager])

\* The AnomalyReport every detector returns on too few shots
insufficient_data(recommended_action) ==
    [ is_suspicious |-> FALSE, confidence |-> 0, detected_patterns |-> <<>>,
      recommended_action |-> recommended_action ]

\* detect_sandbagging: the AnomalyReport (detected_patterns by their kind)
detect_sandbagging(shots) ==
    IF Len(shots) < 20
    THEN insufficient_data("Insufficient data")
    ELSE LET n == Len(shots)
             mean_miss == field_sum(shots, "miss_distance_ft") \div n
             variance  ==
                 SumSeq([i \in 1..n |-> (shots[i].miss_distance_ft - mean_miss)
                                           * (shots[i].miss_distance_ft - mean_miss)]) \div n
             std_dev     == Isqrt(variance)
             high_var    == std_dev * 10 > mean_miss * 8
             negative    == calculate_wager_quality_correlation(shots) < -50
             increase    == /\ n >= 50
                            /\ wager_sum(shots, 26, n) > 5 * wager_sum(shots, 1, 25)
             confidence  == (IF high_var THEN 30 ELSE 0) + (IF negative THEN 40 ELSE 0)
                              + (IF increase THEN 30 ELSE 0)
         IN  [ is_suspicious |-> confidence > 60,
               confidence    |-> confidence,
               detected_patterns |->
                   (IF high_var THEN <<"high variance">> ELSE <<>>)
                   \o (IF negative THEN <<"negative correlation">> ELSE <<>>)
                   \o (IF increase THEN <<"wager increase">> ELSE <<>>),
               recommended_action |->
                   IF confidence > 60
                   THEN "Flag for manual review - potential sandbagging"
                   ELSE "Continue monitoring" ]

\* partition_wagers: the median sorted[len / 2] of the wagers, then the
\* numbers of wagers below it and not below it
partition_wagers(wagers) ==
    LET n      == Len(wagers)
        below(v)    == Cardinality({i \in 1..n : wagers[i] < v})
        at_most(v)  == Cardinality({i \in 1..n : wagers[i] <= v})
        median == CHOOSE v \in {wagers[i] : i \in 1..n} :
                      below(v) <= n \div 2 /\ n \div 2 < at_most(v)
    IN  [ low |-> below(median), high |-> n - below(median) ]

\* detect_cherry_picking
detect_cherry_picking(shots) ==
    IF Len(shots) < 10
    THEN insufficient_data("Insufficient data")
    ELSE LET n == Len(shots)
             correlated == calculate_wager_quality_correlation(shots) > 50
             parts      == partition_wagers([i \in 1..n |-> shots[i].wager])
             total      == field_sum(shots, "wager")
             \* the sums of the multipliers of the shots wagered below the
             \* mean, and of those wagered at least the mean
             low_sum    == SumSeq([i \in 1..n |->
                               IF shots[i].wager * n < total
                               THEN shots[i].multiplier ELSE 0])
             high_sum   == SumSeq([i \in 1..n |->
                               IF shots[i].wager * n >= total
                               THEN shots[i].multiplier ELSE 0])
             bimodal    == /\ parts.low > 0 /\ parts.high > 0
                           /\ 2 * high_sum * parts.low > 3 * low_sum * parts.high
             confidence == (IF correlated THEN 50 ELSE 0) + (IF bimodal THEN 40 ELSE 0)
         IN  [ is_suspicious |-> confidence > 60,
               confidence    |-> confidence,
               detected_patterns |->
                   (IF correlated THEN <<"positive correlation">> ELSE <<>>)
                   \o (IF bimodal THEN <<"bimodal betting">> ELSE <<>>),
               recommended_action |->
                   IF confidence > 60
                   THEN "Limit max wager variance per session"
                   ELSE "Normal betting pattern" ]

\* let is_suspicious = confidence > 0.4
skill_jump_suspicious_low(confidence) == confidence > 40

\* detect_skill_jump: let is_suspicious = confidence > 0.7
skill_jump_suspicious(confidence) == confidence > 70

\* detect_skill_jump.  improvement_rate = (h - r) / h for the average misses
\* h and r is compared as 10 (h - r) > 4 h, which is false for h = 0 as the
\* comparison of the NaN or the negative infinity is
detect_skill_jump(historical_shots, recent_shots) ==
    IF Len(historical_shots) < 20 \/ Len(recent_shots) < 10
    THEN insufficient_data("Insufficient data for comparison")
    ELSE LET hn == Len(historical_shots)
             rn == Len(recent_shots)
             hs == field_sum(historical_shots, "miss_distance_ft")
             rs == field_sum(recent_shots, "miss_distance_ft")
             hw == field_sum(historical_shots, "wager")
             rw == field_sum(recent_shots, "wager")
             improved(tenths) == 10 * (hs * rn - rs * hn) > tenths * hs * rn
             jump    == improved(4)
             wagered == rw * hn > 3 * hw * rn /\ improved(3)
             confidence == (IF jump THEN 50 ELSE 0) + (IF wagered THEN 40 ELSE 0)
         IN  [ is_suspicious |-> skill_jump_suspicious(confidence),
               confidence    |-> confidence,
               detected_patterns |->
                   (IF jump THEN <<"skill improvement">> ELSE <<>>)
                   \o (IF wagered THEN <<"increased wagers">> ELSE <<>>),
               recommended_action |->
                   IF skill_jump_suspicious(confidence)
                   THEN "URGENT: Flag for immediate review - possible account sharing"
                   ELSE IF confidence > 50
                   THEN "Monitor closely for continued pattern"
                   ELSE "Normal skill progression" ]

\* The logs the detector is called with: n1 shots of one kind, then n2 of
\* another wagered a multiple as high
PhaseLengths == {5, 25}

\* miss distances: 5, 20, 90, 100 ft
LogMisses == {50, 200, 900, 1000}

\* multipliers: 0, 0.5x, 1x, 5x
LogMultipliers == {0, 50, 100, 500}

\* the wager of the first phase ($1, $2) and the factor of the second
LogWagers == {10, 20}

WagerFactors == {1, 100}

two_phase_log(n1, first, n2, second) ==
    [i \in 1..(n1 + n2) |-> IF i <= n1 THEN first ELSE second]

InitDetector ==
    /\ player = <<NewPlayer(1, 15)>>
    /\ run = <<idle_session(NewPlayer(1, 15))>>
    /\ results = <<<<>>>>
    /\ plan = [t \in {1} |-> <<>>]
    /\ fat_tails = [t \in {1} |-> 0]
    /\ venue = NoVenue
    /\ filter = NoFilter
    /\ LibraryIdle

\* detect_sandbagging(&shots).  The function reads nothing but its argument,
\* so calls are independent of each other: a behaviour makes one call.
DetectSandbagging ==
    /\ detector = NoCall
    /\ \E n1 \in PhaseLengths, n2 \in PhaseLengths, w \in LogWagers, f \in WagerFactors :
         \E m1 \in {900, 1000}, m2 \in LogMisses, q1 \in {0, 50}, q2 \in LogMultipliers :
            LET shots == two_phase_log(
                             n1, [miss_distance_ft |-> m1, multiplier |-> q1, wager |-> w],
                             n2, [miss_distance_ft |-> m2, multiplier |-> q2, wager |-> w * f])
            IN  detector' = [pc |-> "detect_sandbagging", shots |-> shots,
                             report |-> detect_sandbagging(shots)]
    /\ UNCHANGED <<player, run, results, plan, fat_tails, venue, filter,
                   hole_call, tournament, cli, export>>

\* The lengths of the two phases of a log given to detect_cherry_picking
CherryPhaseLengths == {3, 5, 25}

\* detect_cherry_picking(&shots)
DetectCherryPicking ==
    /\ detector = NoCall
    /\ \E n1 \in CherryPhaseLengths, n2 \in CherryPhaseLengths :
         \E w \in LogWagers, f \in WagerFactors, q1 \in LogMultipliers, q2 \in LogMultipliers :
            LET shots == two_phase_log(
                             n1, [miss_distance_ft |-> 200, multiplier |-> q1, wager |-> w],
                             n2, [miss_distance_ft |-> 200, multiplier |-> q2, wager |-> w * f])
            IN  detector' = [pc |-> "detect_cherry_picking", shots |-> shots,
                             report |-> detect_cherry_picking(shots)]
    /\ UNCHANGED <<player, run, results, plan, fat_tails, venue, filter,
                   hole_call, tournament, cli, export>>

\* The lengths of the historical and of the recent log
HistoricalLengths == {10, 20}

RecentLengths == {5, 10}

\* detect_skill_jump(&historical_shots, &recent_shots)
DetectSkillJump ==
    /\ detector = NoCall
    /\ \E hn \in HistoricalLengths, rn \in RecentLengths :
         \E w \in LogWagers, f \in WagerFactors, m1 \in {0, 1000}, m2 \in LogMisses \cup {650} :
            LET historical_shots ==
                    [i \in 1..hn |-> [miss_distance_ft |-> m1, multiplier |-> 0, wager |-> w]]
                recent_shots ==
                    [i \in 1..rn |-> [miss_distance_ft |-> m2, multiplier |-> 100,
                                      wager |-> w * f]]
            IN  detector' = [pc |-> "detect_skill_jump",
                             historical_shots |-> historical_shots,
                             shots |-> recent_shots,
                             report |-> detect_skill_jump(historical_shots, recent_shots)]
    /\ UNCHANGED <<player, run, results, plan, fat_tails, venue, filter,
                   hole_call, tournament, cli, export>>

NextDetector ==
    \/ DetectSandbagging
    \/ DetectCherryPicking
    \/ DetectSkillJump

SpecDetector == InitDetector /\ [][NextDetector]_vars

\* A log of 25 shots at one wager followed by 25 shots at 100 times as much
sandbagging_log(shots) ==
    /\ Len(shots) = 50
    /\ \A i \in 1..25 : shots[i] = shots[1]
    /\ \A i \in 26..50 : shots[i] = shots[26]
    /\ shots[26].wager = 100 * shots[1].wager

\* C17: detect_sandbagging flags (is_suspicious, confidence > 0.6) every
\* 50-shot log made of 25 poor shots at a low wager followed by 25 shots
\* wagered at 100 times as much.
C17_SandbaggingFlagged ==
    detector.pc = "detect_sandbagging" /\ sandbagging_log(detector.shots) =>
        /\ detector.report.is_suspicious
        /\ detector.report.confidence > 60

----------------------------------------------------------------------------
(* main.rs: the command-line process.  A command is the parsed value of
   Commands with the arguments that the validation and the simulations'
   failures depend on; hole is an Option (<<>> or <<id>>), wagers are in
   dollars, hours in Unit.hour. *)

Command(name, args) ==
    [ name |-> name,
      handicap |-> args[1], shots |-> args[2],
      wager_min |-> args[3], wager_max |-> args[4],
      hole |-> args[5], selector |-> args[6] ]

\* Commands::Player { handicap, shots, wager_min, wager_max, hole, .. }
PlayerCommands ==
    { Command("player", <<handicap, shots, wager[1], wager[2], hole, "">>) :
        handicap \in {15, 31}, shots \in {0, 1},
        wager \in {<<5, 10>>, <<10, 5>>, <<0, 10>>},
        hole \in {<<>>, <<4>>, <<0>>, <<9>>} }

\* Commands::Venue { bays, hours, shots_per_hour, archetype, wager_min,
\* wager_max, .. }: handicap holds bays, shots holds shots_per_hour, one hour
VenueCommands ==
    { Command("venue", <<bays, sph, wager[1], wager[2], <<>>, archetype>>) :
        bays \in {0, 1}, sph \in {0, 1},
        wager \in {<<5, 10>>, <<10, 5>>},
        archetype \in {"uniform", "bell", "beginners", "experts", "pros"} }

\* Commands::Tournament { mode, hole, players, payout, .. }: handicap holds
\* players, selector holds <<mode, payout>>, entry fee $20, default rake
TournamentCommands ==
    { Command("tournament", <<players, 1, 0, 0, <<hole>>, <<mode, payout>> >>) :
        players \in {0, 2}, hole \in {4, 0, 9},
        mode \in {"ctp", "longest", "stroke"},
        payout \in {"winner", "top2", "top3", "all"} }

\* Commands::Validate { test, .. }
ValidateCommands ==
    { Command("validate", <<0, 0, 0, 0, <<>>, test>>) :
        test \in {"all", "rtp", "fairness", "convergence", "bogus"} }

\* The command function up to its simulation: "error" when it prints a
\* diagnostic with eprintln! and returns, "run" when it goes on to simulate
validated(c) ==
    IF c.name = "player"
    THEN (IF c.handicap > 30 THEN "error"
          ELSE IF c.wager_min <= 0 \/ c.wager_max < c.wager_min THEN "error"
          ELSE "run")
    ELSE IF c.name = "venue"
    THEN (IF c.selector \notin {"uniform", "bell", "beginners", "experts"}
          THEN "error" ELSE "run")
    ELSE IF c.name = "tournament"
    THEN (IF tournament_command_config(c.selector[1], c.hole[1], c.handicap, 20,
                                       1000, c.selector[2], c.shots) = <<>>
          THEN "error" ELSE "run")
    ELSE (IF c.selector \notin {"all", "rtp", "fairness", "convergence"}
          THEN "error" ELSE "run")

\* Whether the simulation the command starts panics: run_session on an
\* invalid target or an empty wager range with at least one shot to play,
\* run_venue_simulation without bays
simulation_panics(c) ==
    IF c.name = "player"
    THEN /\ c.shots > 0
         /\ c.hole # <<>>
         /\ select_hole(Fixed(c.hole[1]), 0, 0) = <<>>
    ELSE IF c.name = "venue"
    THEN \/ c.handicap = 0
         \/ /\ shots_per_bay(VenueConfig(c.handicap, Unit.hour, c.shots)) > 0
            /\ c.wager_min > c.wager_max
    ELSE FALSE

\* main() after Cli::parse()
InitCli ==
    /\ player = <<NewPlayer(1, 15)>>
    /\ run = <<idle_session(NewPlayer(1, 15))>>
    /\ results = <<<<>>>>
    /\ plan = [t \in {1} |-> <<>>]
    /\ fat_tails = [t \in {1} |-> 0]
    /\ venue = NoVenue
    /\ filter = NoFilter
    /\ hole_call = NoCall
    /\ tournament = NoCall
    /\ detector = NoCall
    /\ export = NoCall
    /\ \E c \in PlayerCommands \cup VenueCommands \cup TournamentCommands
                 \cup ValidateCommands :
          cli = [pc |-> "parsed", command |-> c, stderr |-> <<>>,
                 simulated |-> FALSE, exit_status |-> <<>>]

\* The command function validates: on an error it prints one line to
\* standard error and returns, main returns and the process exits with 0
Dispatch ==
    /\ cli.pc = "parsed"
    /\ IF validated(cli.command) = "error"
       THEN cli' = [cli EXCEPT !.pc = "exited", !.stderr = <<"Error">>,
                               !.exit_status = <<0>>]
       ELSE cli' = [cli EXCEPT !.pc = "simulating"]
    /\ UNCHANGED <<player, run, results, plan, fat_tails, venue, filter,
                   hole_call, tournament, detector, export>>

\* The simulation returns and main returns (exit status 0), or it panics:
\* the panic message goes to standard error and the process exits with 101
Simulate ==
    /\ cli.pc = "simulating"
    /\ IF simulation_panics(cli.command)
       THEN cli' = [cli EXCEPT !.pc = "exited", !.stderr = <<"panicked">>,
                               !.exit_status = <<101>>]
       ELSE cli' = [cli EXCEPT !.pc = "exited", !.simulated = TRUE,
                               !.exit_status = <<0>>]
    /\ UNCHANGED <<player, run, results, plan, fat_tails, venue, filter,
                   hole_call, tournament, detector, export>>

NextCli ==
    \/ Dispatch
    \/ Simulate

SpecCli == InitCli /\ [][NextCli]_vars

\* The invalid inputs of the claim: a handicap above 30, a target outside
\* 1..8, an inverted wager range, an unknown archetype, mode, payout or test
invalid_input(c) ==
    \/ c.name = "player" /\ c.handicap > 30
    \/ c.name \in {"player", "tournament"} /\ c.hole # <<>>
          /\ (c.hole[1] < 1 \/ c.hole[1] > 8)
    \/ c.name \in {"player", "venue"} /\ c.wager_max < c.wager_min
    \/ c.name = "venue" /\ c.selector \notin {"uniform", "bell", "beginners", "experts"}
    \/ c.name = "tournament" /\ c.selector[1] \notin {"ctp", "longest"}
    \/ c.name = "tournament" /\ c.selector[2] \notin {"winner", "top2", "top3"}
    \/ c.name = "validate" /\ c.selector \notin {"all", "rtp", "fairness", "convergence"}

\* C18: a subcommand given an invalid input prints a one-line diagnostic and
\* exits with status 1 without running a simulation; the exit status is 0
\* only on success.
C18_InvalidInputExitsOne ==
    cli.pc = "exited" =>
        /\ invalid_input(cli.command) =>
              /\ cli.exit_status = <<1>>
              /\ Len(cli.stderr) = 1
              /\ ~cli.simulated
        /\ cli.exit_status = <<0>> => cli.simulated /\ ~invalid_input(cli.command)

\* C19: in the exported heatmap CSV the cell in the row of distance d and the
\* column of handicap bucket b is the hold value the heatmap stores for
\* (bucket b, distance d), for each of the 8 distances and 6 buckets.
C19_HeatmapCsvCells ==
    export.pc = "export_heatmap_csv" =>
        LET stored == venue.result[1].heatmap_data.hold_percentages
        IN  /\ DOMAIN export.file.rows = 0..7
            /\ \A d \in 0..7, b \in 0..5 :
                  /\ export.file.rows[d].distance = HOLE_CONFIGURATIONS[d + 1].distance_yds
                  /\ export.file.rows[d].cells[b] = format_2dp(stored[b][d])

----------------------------------------------------------------------------
(* Claims about the batches of run_session *)

\* "updates enabled": no developer mode, or one that leaves the filter on
updates_enabled(config) == ~disable_kalman_set(config)

\* The call t of run_session completes one iteration in this step
iteration_of(t) ==
    /\ run[t].pc = "loop"
    /\ run'[t].pc = "loop"
    /\ run'[t].shot_num = run[t].shot_num + 1

\* wager >= 10 times the mean of the wagers of a non-empty batch
high_stakes_for(batch, wager) ==
    /\ Len(batch) > 0
    /\ wager * Len(batch) >= 10 * SumSeq([i \in 1..Len(batch) |-> batch[i].wager])

\* C21: with updates enabled, a step whose wager is high-stakes for the
\* batch of its category flushes the batch it found, inserts the new shot,
\* and flushes the batch holding only the new shot, in this order; the step
\* adds 2 to num_kalman_updates and 1 to num_high_stakes_shots and leaves
\* the batch of the category empty.
C21_HighStakesStep ==
    [][\A t \in Tasks :
         iteration_of(t) /\ updates_enabled(run[t].config) =>
            LET n     == run'[t].shot_num
                shot  == run'[t].shots[n]
                c     == hole_of(shot).category
                found == player[t].skill_profiles[c]
                left  == player'[t].skill_profiles[c]
                new   == [miss_distance |-> shot.miss_distance_ft, wager |-> shot.wager]
            IN  high_stakes_for(found.shot_batch, shot.wager) =>
                  /\ run'[t].locals[n].trace =
                        << [op |-> "update_skill", before |-> found.shot_batch,
                            after |-> << >>],
                           [op |-> "add_shot_to_batch", before |-> << >>,
                            after |-> <<new>>],
                           [op |-> "update_skill", before |-> <<new>>,
                            after |-> << >>] >>
                  /\ run'[t].num_kalman_updates = run[t].num_kalman_updates + 2
                  /\ run'[t].num_high_stakes_shots = run[t].num_high_stakes_shots + 1
                  /\ left.shot_batch = << >>
                  /\ Len(left.p_max_history) = Len(found.p_max_history) + 2
    ]_vars

\* A call in progress whose last step found two shots at $1 and was
\* wagered $100: it flushed twice.
C21_Witness ==
    \E t \in Tasks :
        /\ run[t].pc = "loop"
        /\ run[t].shot_num = 3
        /\ updates_enabled(run[t].config)
        /\ run[t].shots[1].wager = 1 /\ run[t].shots[2].wager = 1
        /\ run[t].shots[3].wager = 100
        /\ run[t].locals[3].updates = 2
        /\ Len(run[t].locals[3].trace) = 3
        /\ run[t].num_high_stakes_shots = 1

\* Every batch of the profiles holds fewer than batch_size shots
below_capacity(profiles) ==
    \A c \in Categories : Len(profiles[c].shot_batch) < profiles[c].batch_size

\* The steps of a call: no call of a step saw a batch above capacity, and an
\* insertion that brought the batch to capacity is followed by the flush of
\* that batch
flushed_at_capacity(locals) ==
    \A n \in 1..Len(locals) :
        LET trace == locals[n].trace
        IN  \A k \in 1..Len(trace) :
                /\ Len(trace[k].before) <= BatchSize
                /\ Len(trace[k].after) <= BatchSize
                /\ trace[k].op = "add_shot_to_batch" /\ Len(trace[k].after) >= BatchSize =>
                      /\ k < Len(trace)
                      /\ trace[k + 1].op = "update_skill"
                      /\ trace[k + 1].before = trace[k].after
                      /\ trace[k + 1].after = << >>

\* C22: in a session with updates enabled, started on a player whose batches
\* hold fewer than 5 shots, an insertion that brings a batch to capacity is
\* followed by its flush within the same step; at every step boundary each
\* batch holds fewer than 5 shots, and no batch ever holds more than 5.
C22_BatchBelowCapacity ==
    \A t \in Tasks :
        /\ run[t].pc = "loop" /\ updates_enabled(run[t].config)
              /\ below_capacity(run[t].start_profiles) =>
                 /\ below_capacity(player[t].skill_profiles)
                 /\ flushed_at_capacity(run[t].locals)
        /\ \A i \in 1..Len(results[t]) :
              LET r == results[t][i]
              IN  updates_enabled(r.config) /\ below_capacity(r.start_profiles) =>
                     /\ below_capacity(r.final_profiles)
                     /\ flushed_at_capacity(r.locals)

\* A call in progress, entered below capacity, one step of which brought a
\* batch to five shots without a high-stakes wager
C22_Witness ==
    \E t \in Tasks :
        /\ run[t].pc = "loop" /\ updates_enabled(run[t].config)
        /\ below_capacity(run[t].start_profiles)
        /\ \E n \in 1..Len(run[t].locals) :
              LET trace == run[t].locals[n].trace
              IN  /\ Len(trace) = 2
                  /\ trace[1].op = "add_shot_to_batch"
                  /\ Len(trace[1].after) = BatchSize

\* The call t of run_session returns in this step
return_of(t) ==
    /\ run[t].pc = "loop"
    /\ run'[t].pc = "idle"
    /\ Len(results'[t]) = Len(results[t]) + 1

\* The categories whose batch is not empty
pending(profiles) == {c \in Categories : profiles[c].shot_batch # << >>}

\* What the end of a call with updates enabled does: every batch is left
\* empty, and one update is performed and counted for each category whose
\* batch the loop left non-empty
end_of_session_flush(t) ==
    LET r == results'[t][Len(results'[t])]
    IN  /\ pending(player'[t].skill_profiles) = {}
        /\ pending(r.final_profiles) = {}
        /\ r.num_kalman_updates - run[t].num_kalman_updates
              = Cardinality(pending(player[t].skill_profiles))
        /\ \A c \in Categories :
              Len(player'[t].skill_profiles[c].p_max_history)
                = Len(player[t].skill_profiles[c].p_max_history)
                    + (IF c \in pending(player[t].skill_profiles) THEN 1 ELSE 0)

\* One update in total, performed after the loop
one_update_at_end(t) ==
    /\ results'[t][Len(results'[t])].num_kalman_updates = 1
    /\ run[t].num_kalman_updates = 0

\* C23 as stated: when run_session returns with updates enabled every batch
\* is empty, the end of the session performs and counts one update for each
\* category whose batch was non-empty after the loop, and a single-shot
\* session performs exactly one update in total, at the end of the session.
C23_EndOfSessionFlush ==
    [][\A t \in Tasks :
         return_of(t) /\ updates_enabled(run[t].config) =>
            /\ end_of_session_flush(t)
            /\ run[t].config.num_shots = 1 => one_update_at_end(t)
    ]_vars

\* C23 amended: the same, the single-shot session being one entered with
\* every batch empty.
C23_EndOfSessionFlushFromEmpty ==
    [][\A t \in Tasks :
         return_of(t) /\ updates_enabled(run[t].config) =>
            /\ end_of_session_flush(t)
            /\ run[t].config.num_shots = 1 /\ pending(run[t].start_profiles) = {} =>
                  one_update_at_end(t)
    ]_vars

\* A single-shot session entered with every batch empty has returned with
\* its one update, and so has a session whose loop left two batches pending
C23_Witness ==
    \E t \in Tasks : \E i \in 1..Len(results[t]) :
        LET r == results[t][i]
        IN  /\ updates_enabled(r.config)
            /\ pending(r.start_profiles) = {}
            /\ pending(r.final_profiles) = {}
            /\ \/ /\ r.config.num_shots = 1
                   /\ r.num_kalman_updates = 1
                   /\ r.locals[1].updates = 0
               \/ /\ r.config.num_shots = 3
                   /\ r.num_kalman_updates = 2
                   /\ \A n \in 1..3 : r.locals[n].updates = 0

\* The step of call t that has just completed: what is_high_stakes_shot
\* returned for it is what the definition gives for the batch it found,
\* and the shot is counted exactly then
high_stakes_as_defined(t) ==
    LET n     == run'[t].shot_num
        shot  == run'[t].shots[n]
        found == player[t].skill_profiles[hole_of(shot).category].shot_batch
        high  == high_stakes_for(found, shot.wager)
    IN  /\ run'[t].locals[n].is_high_stakes = high
        /\ run'[t].num_high_stakes_shots
              = run[t].num_high_stakes_shots + (IF high THEN 1 ELSE 0)
        /\ found = << >> =>
              /\ ~run'[t].locals[n].is_high_stakes
              /\ run'[t].locals[n].trace[1].op = "add_shot_to_batch"

\* The step is the first of the call on a target of its category
first_in_category(t) ==
    LET n == run'[t].shot_num
    IN  \A k \in 1..(n - 1) :
            hole_of(run'[t].shots[k]).category # hole_of(run'[t].shots[n]).category

\* The step is not counted as high-stakes and does not flush before the
\* insertion
not_high_stakes(t) ==
    LET n == run'[t].shot_num
    IN  /\ run'[t].num_high_stakes_shots = run[t].num_high_stakes_shots
        /\ run'[t].locals[n].trace[1].op = "add_shot_to_batch"

----------------------------------------------------------------------------
(* Claims about the skill profiles of a player *)

\* The categories whose profile the step changes for player t
changed(t) ==
    {c \in Categories : player'[t].skill_profiles[c] # player[t].skill_profiles[c]}

\* The categories of the targets the step calls add_shot_to_batch or
\* update_skill on: the target of the caller's call, the target of the
\* iteration, or the targets whose batch the end of the session flushes
targets_called(t) ==
    IF run[t].pc = "idle" /\ plan[t] # << >>
          /\ Head(plan[t]).call \in {"add_shot_to_batch", "update_skill"}
    THEN {HOLE_CONFIGURATIONS[Head(plan[t]).hole_id].category}
    ELSE IF iteration_of(t)
    THEN {hole_of(run'[t].shots[run'[t].shot_num]).category}
    ELSE IF return_of(t)
    THEN pending(player[t].skill_profiles)
    ELSE {}

\* C25: a player holds exactly three category filters from construction
\* onward, and add_shot_to_batch and update_skill on a target change only
\* the profile of the target's category (targets 1-3 Wedge, 4-5 MidIron,
\* 6-8 LongIron): estimate, error covariance, batch and P_max history of
\* the other two are unchanged.
C25_CategoryFrame ==
    /\ \A t \in Tasks : DOMAIN player[t].skill_profiles = Categories
    /\ [][\A t \in Tasks :
            /\ DOMAIN player'[t].skill_profiles = Categories
            /\ [i \in 1..8 |-> HOLE_CONFIGURATIONS[i].category]
                  = << "Wedge", "Wedge", "Wedge", "MidIron", "MidIron",
                       "LongIron", "LongIron", "LongIron" >>
            /\ changed(t) \subseteq targets_called(t)
       ]_vars

\* test_separate_skill_profiles has run: the wedge profile has one update,
\* the long-iron profile is the one of construction
C25_Witness ==
    \E t \in Tasks :
        /\ plan[t] = << >> /\ results[t] = << >> /\ run[t].pc = "idle"
        /\ Len(player[t].skill_profiles["Wedge"].p_max_history) = 1
        /\ player[t].skill_profiles["Wedge"].shot_batch = << >>
        /\ player[t].skill_profiles["LongIron"]
              = NewPlayer(1, player[t].handicap).skill_profiles["LongIron"]
        /\ player[t].skill_profiles["MidIron"]
              = NewPlayer(1, player[t].handicap).skill_profiles["MidIron"]

----------------------------------------------------------------------------
(* Claims about the counters of run_session *)

\* The number of entries p_max_history gained, over the three categories
appended(from, to) ==
    SumSeq([i \in 1..3 |->
               LET c == << "Wedge", "MidIron", "LongIron" >>[i]
               IN  Len(to[c].p_max_history) - Len(from[c].p_max_history)])

\* The calls of update_skill in the steps of a call, and those among them
\* made on an empty batch
flushes(locals) ==
    {<<n, k>> \in (1..Len(locals)) \X (1..3) :
        /\ k <= Len(locals[n].trace)
        /\ locals[n].trace[k].op = "update_skill"}

\* Every update_skill of the steps found a non-empty batch, and each step
\* counted the calls it made
flushes_counted(locals) ==
    /\ \A f \in flushes(locals) : locals[f[1]].trace[f[2]].before # << >>
    /\ \A n \in 1..Len(locals) :
          locals[n].updates = Cardinality({f \in flushes(locals) : f[1] = n})

\* C26: for every session with updates enabled, num_kalman_updates is the
\* number of entries appended to the three p_max_history during the
\* session: every counted update flushed a non-empty batch, and no flush
\* goes uncounted.
C26_UpdatesAreHistoryEntries ==
    \A t \in Tasks :
        /\ run[t].pc = "loop" /\ updates_enabled(run[t].config) =>
              /\ run[t].num_kalman_updates
                    = appended(run[t].start_profiles, player[t].skill_profiles)
              /\ flushes_counted(run[t].locals)
        /\ \A i \in 1..Len(results[t]) :
              LET r == results[t][i]
              IN  updates_enabled(r.config) =>
                    /\ r.num_kalman_updates = appended(r.start_profiles, r.final_profiles)
                    /\ flushes_counted(r.locals)

\* A returned session of three shots that counted three updates: the two of
\* a high-stakes step and the one of the end of the session
C26_Witness ==
    \E t \in Tasks : \E i \in 1..Len(results[t]) :
        LET r == results[t][i]
        IN  /\ updates_enabled(r.config)
            /\ r.config.num_shots = 3
            /\ r.num_kalman_updates = 3
            /\ r.locals[2].updates = 2
            /\ appended(r.start_profiles, r.final_profiles) = 3

\* n_c: the number of shots played on the targets of category c
shots_in_category(shots, c) ==
    Cardinality({n \in 1..Len(shots) : hole_of(shots[n]).category = c})

\* ceil(n / 5)
batches_of(n) == (n + BatchSize - 1) \div BatchSize

\* Every wager of the session is the same positive amount
uniform_wagers(shots) ==
    \A n \in 1..Len(shots) : shots[n].wager = shots[1].wager /\ shots[n].wager > 0

----------------------------------------------------------------------------
(* Claims about the analytics of run_venue_simulation *)

\* The handicap buckets 0-4, 5-9, 10-14, 15-19, 20-24, 25-30, from 0
handicap_buckets == [k \in 0..5 |-> (5 * k)..(IF k = 5 THEN 30 ELSE 5 * k + 4)]

\* The shots <<bay, index>> of the venue played by a player of bucket k on
\* the target of column j
cell_shots(k, j) ==
    {e \in UNION {{<<b, i>> : i \in 1..Len(bay_shots(results[b]))} : b \in Tasks} :
        /\ player[e[1]].handicap \in handicap_buckets[k]
        /\ bay_shots(results[e[1]])[e[2]].hole_id = j + 1}

\* The sum of wager - payout, in cents, over the shots of the cell
cell_profit(k, j) ==
    SumSeq([b \in 1..Cardinality(Tasks) |->
        SumSeq([i \in 1..Len(bay_shots(results[b])) |->
            IF <<b, i>> \in cell_shots(k, j)
            THEN bay_shots(results[b])[i].wager * 100 - bay_shots(results[b])[i].payout
            ELSE 0])])

\* C28: the venue heatmap is a 6 x 8 matrix; every shot of every bay is
\* accumulated in exactly one cell, the row of its player's handicap bucket
\* and the column of its target; a cell's value is the sum of wager - payout
\* over its shots divided by (count * 10), and 0 for a cell without shots.
C28_HeatmapCells ==
    venue.pc = "done" =>
        LET heatmap == venue.result[1].heatmap_data
        IN  /\ DOMAIN heatmap.hold_percentages = 0..5
            /\ \A k \in 0..5 : DOMAIN heatmap.hold_percentages[k] = 0..7
            /\ \A k \in 0..5, j \in 0..7 :
                  /\ heatmap.count_matrix[k][j] = Cardinality(cell_shots(k, j))
                  /\ heatmap.hold_matrix[k][j] = cell_profit(k, j)
                  /\ heatmap.hold_percentages[k][j] =
                        IF cell_shots(k, j) = {} THEN 0
                        ELSE (cell_profit(k, j) * 10) \div Cardinality(cell_shots(k, j))
            /\ SumSeq([c \in 1..48 |->
                          heatmap.count_matrix[(c - 1) \div 8][(c - 1) % 8]])
                  = venue.result[1].total_shots
            /\ \A b \in Tasks : \A i \in 1..Len(bay_shots(results[b])) :
                  Cardinality({c \in (0..5) \X (0..7) :
                                  <<b, i>> \in cell_shots(c[1], c[2])}) = 1

\* A venue whose players of handicap 4 and 5 played the same target: one
\* shot in the row 0-4 and one in the row 5-9 of that column
C28_Witness ==
    /\ venue.pc = "done"
    /\ \E b \in Tasks : player[b].handicap = 4
    /\ \E j \in 0..7 :
          /\ venue.result[1].heatmap_data.count_matrix[0][j] = 1
          /\ venue.result[1].heatmap_data.count_matrix[1][j] = 1
          /\ venue.result[1].heatmap_data.hold_percentages[0][j] # 0

\* The shots <<bay, index>> of the venue whose multiplier m has
\* min(floor(m), 10) = bin
bin_shots(bin) ==
    {e \in UNION {{<<b, i>> : i \in 1..Len(bay_shots(results[b]))} : b \in Tasks} :
        Min(bay_shots(results[e[1]])[e[2]].multiplier \div Unit.mult, 10) = bin}

\* C29: the multiplier histogram of the venue counts each shot in exactly
\* one of 11 bins, bin min(floor(multiplier), 10), so the 11 counts sum to
\* total_shots.
C29_HistogramSumsToTotal ==
    venue.pc = "done" =>
        LET out == venue.result[1]
        IN  /\ DOMAIN out.payout_distribution = 0..10
            /\ \A bin \in 0..10 :
                  out.payout_distribution[bin] = Cardinality(bin_shots(bin))
            /\ SumSeq([k \in 1..11 |-> out.payout_distribution[k - 1]]) = out.total_shots
            /\ out.total_shots
                  = SumSeq([b \in 1..Cardinality(Tasks) |-> Len(bay_shots(results[b]))])

\* A venue with a shot paid 10x or more and a shot paid less
C29_Witness ==
    /\ venue.pc = "done"
    /\ venue.result[1].total_shots = 2
    /\ venue.result[1].payout_distribution[10] = 1
    /\ \E bin \in 0..9 : venue.result[1].payout_distribution[bin] = 1

----------------------------------------------------------------------------
(* Claims about the reports of anti_cheat.rs *)

\* The confidence each pattern adds
pattern_confidence ==
    [ p \in {"high variance", "wager increase", "negative correlation",
             "positive correlation", "bimodal betting",
             "skill improvement", "increased wagers"} |->
        CASE p \in {"high variance", "wager increase"} -> 30
          [] p \in {"negative correlation", "bimodal betting", "increased wagers"} -> 40
          [] OTHER -> 50 ]

\* The confidence accumulated over the detected patterns of a report
accumulated(report) ==
    SumSeq([i \in 1..Len(report.detected_patterns) |->
               pattern_confidence[report.detected_patterns[i]]])

\* The detector was called on fewer shots than its minimum
too_few_shots ==
    \/ detector.pc = "detect_sandbagging" /\ Len(detector.shots) < 20
    \/ detector.pc = "detect_cherry_picking" /\ Len(detector.shots) < 10
    \/ /\ detector.pc = "detect_skill_jump"
       /\ Len(detector.historical_shots) < 20 \/ Len(detector.shots) < 10

\* C30: a detector given fewer shots than its minimum (detect_sandbagging 20,
\* detect_cherry_picking 10, detect_skill_jump 20 historical or 10 recent)
\* reports is_suspicious = false, confidence 0, no pattern and an
\* insufficient-data action; given enough, is_suspicious is true exactly
\* when the accumulated confidence exceeds the threshold (0.6, 0.6, 0.7).
C30_DetectorReports ==
    detector.pc # "none" =>
        LET report    == detector.report
            threshold == IF detector.pc = "detect_skill_jump" THEN 70 ELSE 60
        IN  IF too_few_shots
            THEN /\ ~report.is_suspicious
                 /\ report.confidence = 0
                 /\ report.detected_patterns = << >>
                 /\ report.recommended_action
                       \in {"Insufficient data", "Insufficient data for comparison"}
            ELSE /\ report.confidence = accumulated(report)
                 /\ report.is_suspicious <=> accumulated(report) > threshold
                 /\ report.recommended_action
                       \notin {"Insufficient data", "Insufficient data for comparison"}

\* detect_skill_jump was given enough shots and accumulated 0.5, which is
\* not above its threshold
C30_Witness ==
    /\ detector.pc = "detect_skill_jump"
    /\ ~too_few_shots
    /\ detector.report.confidence = 50
    /\ ~detector.report.is_suspicious

====
